---- MODULE Spec2Model ----
(***************************************************************************)
(* distbuild coordinator: the job table, the log-chunk table and the HTTP  *)
(* handlers of distbuild/api.py that read and write them.                   *)
(*                                                                         *)
(* Handlers run concurrently, each on its own database session.  Every     *)
(* SELECT reads the latest committed rows and every UPDATE/INSERT + commit *)
(* is atomic, so a handler is modelled as one step per database statement; *)
(* the requests in flight are kept in the bag `inflight`.                   *)
(*                                                                         *)
(* Also the worker process of distbuild/worker.py with the executors of    *)
(* distbuild/sandbox.py (its main thread and the two pump threads, one     *)
(* step per statement that touches what they share), and the log-polling   *)
(* client of distbuild/client.py.                                          *)
(***************************************************************************)
EXTENDS Integers, Sequences, FiniteSets, Bags, TLC

\* Python None / SQL NULL in a string column or header.
None == "None"

\* Python None / SQL NULL in an integer or timestamp column: a value no
\* exit code, clock reading or row number takes.
Null == 0 - 1

\* ------------------------------------------------------------------ bounds
\* Rows the job table may hold.
MaxJobs == 2
\* Last instant of the clock (datetime.utcnow() read as an integer tick).
MaxTime == 2
\* Requests being served at the same time.
MaxInflight == 2
\* Rows the log-chunk table may hold.
MaxLogs == 2
\* Successful claim responses over a run.
MaxClaims == 3
\* Finish requests over a run that are not the worker's one finish of the
\* job it ran.
MaxOther == 2

\* config.MAX_LOG_CHARS (DISTBUILD_MAX_LOG_CHARS): characters of a chunk's
\* text that are stored; set as long as the truncation marker, so that a
\* text can hold the marker within the characters kept.
MAX_LOG_CHARS == 13
\* Pieces a log text of the truncation runs is made of.
MaxPieces == 3

\* Inputs of the GET endpoints around the stored rows and the clamps.
MaxOffset == 2
MaxLimit == 2
\* timeout_seconds of the job the worker process runs.
TimeoutSeconds == 1
\* The buffer length at which on_log flushes: the worker's 50, scaled down.
FlushAt == 2
\* The number of chunks pushed on one WebSocket.
MaxPushed == 3
\* The number of claims that succeed while one claim request is served.
MaxSteals == 10

\* ------------------------------------------------------- program constants
\* min(limit, 2000) of get_job_logs.
LOGS_LIMIT_MAX == 2000
\* min(limit, 200) of list_jobs.
JOBS_LIMIT_MAX == 200
\* .limit(200) of a WebSocket frame
WS_FRAME_LIMIT == 200
\* WebSocket close codes
WS_UNAUTHORIZED == 4401
WS_NOT_FOUND == 4404
\* the limit JobFuture.iter_logs and the test script pass
POLL_LIMIT == 500
\* JobCreate.command: max_length=20_000.
COMMAND_MAX_LENGTH == 20000
\* JobCreate.timeout_seconds: le=86_400.
TIMEOUT_SECONDS_MAX == 86400
\* timedelta(days=1), in clock ticks.
Day == 1
\* for _ in range(10)
ClaimAttempts == 10

\* ------------------------------------------------------------------ models
JobStatus == {"queued", "running", "succeeded", "failed", "cancelled"}

TerminalStatus == {"succeeded", "failed", "cancelled"}

\* Consumer rows as provisioned by the admin tool: alice with
\* max_concurrent_jobs = 1 and max_jobs_per_day = 2, bob with 2 and 1.
Consumers == {"alice", "bob"}

ConsumerRow(c) ==
    IF c = "alice"
    THEN [id |-> c, active |-> TRUE, max_concurrent_jobs |-> 1, max_jobs_per_day |-> 2]
    ELSE [id |-> c, active |-> TRUE, max_concurrent_jobs |-> 2, max_jobs_per_day |-> 1]

\* A freshly constructed Job: the column defaults of the model class.
Job(id, consumer_id, created_at) ==
    [id          |-> id,
     consumer_id |-> consumer_id,
     status      |-> "queued",
     created_at  |-> created_at,
     started_at  |-> Null,
     finished_at |-> Null,
     worker_id   |-> None,
     exit_code   |-> Null,
     error       |-> None]

JobLogChunk(job_id, seq, stream, text) ==
    [job_id |-> job_id, seq |-> seq, stream |-> stream, text |-> text]

\* -------------------------------------------------------------- the inputs
\* X-Worker-Id header values (None: header absent).
WorkerIdHeaders == {None}

\* Finish payloads as the worker sends them: status, exit_code, error.
WorkerPayloads ==
    {[status |-> "succeeded", exit_code |-> 0, error |-> None],
     [status |-> "failed", exit_code |-> 1, error |-> None]}

\* The other payloads FinishJobIn accepts: status is any JobStatus.
OtherPayloads ==
    {[status |-> s, exit_code |-> Null, error |-> None] :
        s \in {"queued", "running", "cancelled"}}

\* Append-logs payloads: lists of chunks; the seq a chunk carries is ignored.
LogPayloads ==
    {<<[seq |-> 0, stream |-> "stdout", text |-> <<"a">>]>>}

\* The configuration of the runs of test_job.py: a worker token is set and
\* local sandboxes are allowed (the default).
DefaultConfig == [WORKER_SHARED_TOKEN |-> "token", ALLOW_LOCAL_SANDBOX |-> TRUE]

\* ------------------------------------------------------------------- state
VARIABLES
    now,        \* the clock
    consumers,  \* consumer table: id -> row
    jobs,       \* job table, in insertion (rowid) order
    logs,       \* log-chunk table, in insertion order
    inflight,   \* bag of the requests being served
    resp,       \* the response the last step sent, or NoResp
    claimLog,   \* job ids returned by claim responses, in order
    others,     \* finish requests served that were not the worker's own
    page,       \* the JSON body of the last GET response sent
    config,     \* the server's configuration, read from the environment
    worker,     \* the worker process: its threads, buffer and child
    client      \* a consumer's log-polling client: offset and chunks received

vars == <<now, consumers, jobs, logs, inflight, resp, claimLog, others, page, config, worker, client>>

\* The rows of the job table.  Requests name a job by its row, which stands
\* for the lookup by primary key; the id column holds the uuid4 value, which
\* is unrelated to the order of insertion.
JobIds == DOMAIN jobs

\* uuid4 values not given to a row yet.
FreeUuids == (1 .. MaxJobs) \ {jobs[i].id : i \in JobIds}

\* to: the consumer answered ("worker" on the worker endpoints); detail: the
\* error detail, or for a claim whether a job is returned.
NoResp == [op |-> None, code |-> 0, to |-> None, detail |-> None]

\* No GET response sent yet.
NoPage == <<>>

\* No worker process is modelled.
NoWorker == <<>>

\* No polling client is modelled.
NoClient == <<>>

Response(op, code, to, detail) ==
    [op |-> op, code |-> code, to |-> to, detail |-> detail]

Send(r) == inflight (+) SetToBag({r})

Drop(r) == inflight (-) SetToBag({r})

Move(r, s) == (inflight (-) SetToBag({r})) (+) SetToBag({s})

Requests == BagToSet(inflight)

\* ------------------------------------------------------------------- quota
\* select(Job).where(consumer_id == c).where(status == running)
count_running(c) ==
    Cardinality({i \in JobIds : jobs[i].consumer_id = c /\ jobs[i].status = "running"})

\* select(Job).where(consumer_id == c).where(created_at >= since)
count_created_since(c, since) ==
    Cardinality({i \in JobIds : jobs[i].consumer_id = c /\ jobs[i].created_at >= since})

\* The concurrency check with > for >=: a variant the properties of the
\* concurrency limit must tell apart from the code's check.
submit_concurrent_limit_exceeded(consumer) ==
    count_running(consumer.id) > consumer.max_concurrent_jobs

\* enforce_submit_quota, first half: TRUE when the concurrency check raises.
submit_concurrent_limit_reached(consumer) ==
    count_running(consumer.id) >= consumer.max_concurrent_jobs

\* The daily check with > for >=: a variant the properties of the daily
\* limit must tell apart from the code's check.
submit_daily_limit_exceeded(consumer) ==
    count_created_since(consumer.id, now - Day) > consumer.max_jobs_per_day

\* enforce_submit_quota, second half: TRUE when the daily check raises.
submit_daily_limit_reached(consumer) ==
    count_created_since(consumer.id, now - Day) >= consumer.max_jobs_per_day

\* A claim check that does not read is_active: a variant the properties of
\* disabled consumers must tell apart from the code's check.
claim_quota_error_ignoring_active(consumer_id) ==
    \/ consumer_id \notin DOMAIN consumers
    \/ count_running(consumer_id) >= consumers[consumer_id].max_concurrent_jobs

\* enforce_claim_quota: TRUE when it raises QuotaError.
claim_quota_error(consumer_id) ==
    \/ consumer_id \notin DOMAIN consumers
    \/ ~consumers[consumer_id].active
    \/ count_running(consumer_id) >= consumers[consumer_id].max_concurrent_jobs

\* --------------------------------------------------------------- POST jobs
\* A submission arrives.  _require_consumer loads the consumer row, which the
\* session keeps for the rest of the request (401 without a verified key is
\* not modelled here); then enforce_submit_quota checks the flag of that row
\* and selects the running jobs.
StartSubmit(c) ==
    /\ BagCardinality(inflight) < MaxInflight
    /\ LET consumer == consumers[c]
       IN  IF ~consumer.active
           THEN /\ resp' = Response("submit", 403, c, "consumer disabled")
                /\ UNCHANGED inflight
           ELSE IF submit_concurrent_limit_reached(consumer)
           THEN /\ resp' = Response("submit", 429, c, "concurrent job limit reached")
                /\ UNCHANGED inflight
           ELSE /\ inflight' = Send([op |-> "submit", pc |-> "recent",
                                     consumer |-> consumer, created_at |-> Null])
                /\ resp' = NoResp
    /\ UNCHANGED <<now, consumers, jobs, logs, claimLog, others, page, config, worker, client>>

\* Submit requests that hold a constructed Job not inserted yet.
Constructed == {r \in Requests : r.op = "submit" /\ r.pc = "insert"}

PendingInserts ==
    LET B == [r \in Constructed |-> inflight[r]]
    IN  BagCardinality(B)

\* enforce_submit_quota: the select of the last day's jobs; then Job(...) is
\* constructed, which reads the clock for created_at.
SubmitRecent(r) ==
    /\ r.op = "submit" /\ r.pc = "recent"
    /\ IF submit_daily_limit_reached(r.consumer)
       THEN /\ inflight' = Drop(r)
            /\ resp' = Response("submit", 429, r.consumer.id, "daily job limit reached")
       ELSE /\ Len(jobs) + PendingInserts < MaxJobs
            /\ inflight' = Move(r, [r EXCEPT !.pc = "insert", !.created_at = now])
            /\ resp' = NoResp
    /\ UNCHANGED <<now, consumers, jobs, logs, claimLog, others, page, config, worker, client>>

\* db.add(job); db.commit(); the response carries the new row.  The id is
\* the uuid4 drawn when the Job was constructed; nothing reads it before the
\* insert, so it is drawn here.
SubmitInsert(r) ==
    /\ r.op = "submit" /\ r.pc = "insert"
    /\ \E id \in FreeUuids :
            jobs' = Append(jobs, Job(id, r.consumer.id, r.created_at))
    /\ inflight' = Drop(r)
    /\ resp' = Response("submit", 200, r.consumer.id, None)
    /\ UNCHANGED <<now, consumers, logs, claimLog, others, page, config, worker, client>>

\* ------------------------------------------------------- POST worker/claim
Queued == {i \in JobIds : jobs[i].status = "queued"}

\* select(Job).where(status == queued).order_by(created_at).limit(1): the
\* row the store returns, as a set (empty without a queued row).  The
\* statement orders by created_at alone; SQLite, the store of config.py,
\* returns rows of equal created_at in rowid order.
oldest_queued ==
    {i \in Queued :
        \A k \in Queued \ {i} :
            \/ jobs[i].created_at < jobs[k].created_at
            \/ jobs[i].created_at = jobs[k].created_at /\ i < k}

\* One pass of the loop up to the select: r is the request after the select.
ClaimSelect(r, rest) ==
    IF Queued = {}
    THEN /\ inflight' = rest
         /\ resp' = Response("claim", 200, "worker", "null")
    ELSE \E j \in oldest_queued :
            /\ inflight' = rest (+) SetToBag({[r EXCEPT !.pc = "quota", !.job = j]})
            /\ resp' = NoResp

\* A claim request arrives and runs its first select.
StartClaim(h) ==
    /\ BagCardinality(inflight) < MaxInflight
    /\ Len(claimLog) < MaxClaims
    /\ ClaimSelect([op |-> "claim", pc |-> "select", attempt |-> 1, job |-> 0,
                    worker_id |-> h], inflight)
    /\ UNCHANGED <<now, consumers, jobs, logs, claimLog, others, page, config, worker, client>>

\* The select of a later pass of the loop.
ClaimRetry(r) ==
    /\ r.op = "claim" /\ r.pc = "select"
    /\ ClaimSelect(r, Drop(r))
    /\ UNCHANGED <<now, consumers, jobs, logs, claimLog, others, page, config, worker, client>>

\* enforce_claim_quota on the owner of the selected job.
ClaimQuota(r) ==
    /\ r.op = "claim" /\ r.pc = "quota"
    /\ IF claim_quota_error(jobs[r.job].consumer_id)
       THEN /\ inflight' = Drop(r)
            /\ resp' = Response("claim", 200, "worker", "null")
       ELSE /\ inflight' = Move(r, [r EXCEPT !.pc = "update"])
            /\ resp' = NoResp
    /\ UNCHANGED <<now, consumers, jobs, logs, claimLog, others, page, config, worker, client>>

\* The UPDATE without .where(Job.status == JobStatus.queued): a variant the
\* at-most-one-claim property must tell apart from the code's statement.
claim_update_matches_any_status(j) == j \in JobIds

\* The WHERE clause of the claim's UPDATE.
claim_update_matches(j) == j \in JobIds /\ jobs[j].status = "queued"

\* while True for range(10): a variant the bound on a claim's passes must
\* tell apart from the code's loop.
claim_again_always(attempt) == TRUE

\* for _ in range(10): there is a pass after this one.
claim_again(attempt) == attempt < ClaimAttempts

\* update(Job).where(id == job.id).where(status == queued).values(...);
\* commit.  rowcount 1: the job is returned.  rowcount 0: next pass, or the
\* loop is over.
ClaimUpdate(r) ==
    /\ r.op = "claim" /\ r.pc = "update"
    /\ IF claim_update_matches(r.job)
       THEN /\ jobs' = [jobs EXCEPT ![r.job] =
                            [@ EXCEPT !.status = "running",
                                      !.started_at = now,
                                      !.worker_id =
                                          IF r.worker_id = None THEN "worker"
                                          ELSE r.worker_id]]
            /\ inflight' = Drop(r)
            /\ resp' = Response("claim", 200, "worker", "job")
            /\ claimLog' = Append(claimLog, jobs[r.job].id)
       ELSE /\ UNCHANGED <<jobs, claimLog>>
            /\ IF claim_again(r.attempt)
               THEN /\ inflight' = Move(r, [r EXCEPT !.pc = "select",
                                                    !.attempt = r.attempt + 1,
                                                    !.job = 0])
                    /\ resp' = NoResp
               ELSE /\ inflight' = Drop(r)
                    /\ resp' = Response("claim", 200, "worker", "null")
    /\ UNCHANGED <<now, consumers, logs, others, page, config, worker, client>>

\* --------------------------------------------- POST worker/jobs/{id}/finish
\* A finish that does not write the status: a variant the properties of the
\* running count must tell apart from the code's write.
finished_row_status_kept(job, payload) ==
    [job EXCEPT !.exit_code = payload.exit_code,
                !.error = payload.error,
                !.finished_at = now]

\* The row worker_finish writes.
finished_row(job, payload) ==
    [job EXCEPT !.status = payload.status,
                !.exit_code = payload.exit_code,
                !.error = payload.error,
                !.finished_at = now]

\* worker_finish.  The write does not depend on what db.get read beyond the
\* row existing, so the handler is one step.
worker_finish(job_id, payload) ==
    /\ IF job_id \notin JobIds
       THEN /\ resp' = Response("finish", 404, "worker", "job not found")
            /\ UNCHANGED jobs
       ELSE /\ jobs' = [jobs EXCEPT ![job_id] = finished_row(@, payload)]
            /\ resp' = Response("finish", 200, "worker", None)
    /\ UNCHANGED <<now, consumers, logs, inflight, claimLog, page, config, worker, client>>

\* The finish the worker posts for the job it claimed and ran: once, with
\* status succeeded or failed.
Finish(job_id, payload) ==
    /\ job_id \in JobIds
    /\ jobs[job_id].status = "running"
    /\ payload \in WorkerPayloads
    /\ worker_finish(job_id, payload)
    /\ UNCHANGED others

\* Any other finish request the endpoint accepts: any job id, any JobStatus.
FinishOther(job_id, payload) ==
    /\ payload \in WorkerPayloads \cup OtherPayloads
    /\ ~(job_id \in JobIds /\ jobs[job_id].status = "running"
            /\ payload \in WorkerPayloads)
    /\ others < MaxOther
    /\ others' = others + 1
    /\ worker_finish(job_id, payload)

\* The payload that wrote the row's status, exit_code and error.
FinishJobIn(job) ==
    [status |-> job.status, exit_code |-> job.exit_code, error |-> job.error]

\* A finish request repeated for a job the worker finished, with the same
\* status, exit_code and error (a retry of the POST, for one).
FinishAgain(job_id) ==
    /\ job_id \in JobIds
    /\ jobs[job_id].status \in {"succeeded", "failed"}
    /\ FinishOther(job_id, FinishJobIn(jobs[job_id]))

\* ------------------------------------------------- the worker's execution
\* What run_sandbox does: it returns an exit code (0; a command's own
\* non-zero code; 124 after a timeout; 126 for an unusable container; a
\* negative code for a command killed by a signal) or raises.
ExitCodes == {0, 1, 124, 126, 0 - 9}

Executions ==
    {[raised |-> FALSE, rc |-> rc] : rc \in ExitCodes} \cup {[raised |-> TRUE, rc |-> 0]}

\* exit_code = 1, then the value run_sandbox returned if it returned.
worker_exit_code(execution) == IF execution.raised THEN 1 ELSE execution.rc

\* err: None, or the text built from the exception.
worker_error(execution) == IF execution.raised THEN "worker exception" ELSE None

\* A status taken from err alone: a variant the properties of the reported
\* status must tell apart from the worker's expression.
worker_status_ignoring_exit_code(execution) ==
    IF worker_error(execution) = None THEN "succeeded" ELSE "failed"

\* "succeeded" if (err is None and exit_code == 0) else "failed"
worker_status(execution) ==
    IF worker_error(execution) = None /\ worker_exit_code(execution) = 0
    THEN "succeeded" ELSE "failed"

\* The json of the worker's finish request.
worker_payload(execution) ==
    [status |-> worker_status(execution),
     exit_code |-> worker_exit_code(execution),
     error |-> worker_error(execution)]

\* The worker ran the job it claimed and posts its finish.
RunAndFinish(job_id, execution) ==
    /\ job_id \in JobIds
    /\ jobs[job_id].status = "running"
    /\ worker_finish(job_id, worker_payload(execution))
    /\ UNCHANGED others

\* ----------------------------------------------- POST worker/jobs/{id}/logs
\* "\n[truncated]\n", character by character.
TruncationMarker ==
    <<"\n", "[", "t", "r", "u", "n", "c", "a", "t", "e", "d", "]", "\n">>

\* text[: MAX_LOG_CHARS] + marker when the text is longer than MAX_LOG_CHARS.
stored_text(text) ==
    IF Len(text) > MAX_LOG_CHARS
    THEN SubSeq(text, 1, MAX_LOG_CHARS) \o TruncationMarker
    ELSE text

\* Log texts as sequences of characters: up to MaxPieces pieces, each the
\* letter a or the text of the truncation marker.
TextPieces == {<<"a">>, TruncationMarker}

Texts ==
    LET RECURSIVE Flatten(_)
        Flatten(ps) == IF ps = <<>> THEN <<>> ELSE Head(ps) \o Flatten(Tail(ps))
    IN  UNION {{Flatten(ps) : ps \in [1 .. n -> TextPieces]} : n \in 0 .. MaxPieces}

\* Append-logs payloads of one chunk with any of these texts.
TextPayloads == {<<[seq |-> 0, stream |-> "stdout", text |-> t]>> : t \in Texts}

\* Chunks of the requests in flight that are not inserted yet.
PendingChunks ==
    LET A == {r \in Requests : r.op = "append"}
        RECURSIVE Sum(_)
        Sum(S) == IF S = {} THEN 0
                  ELSE LET r == CHOOSE x \in S : TRUE
                       IN  inflight[r] * Len(r.chunks) + Sum(S \ {r})
    IN  Sum(A)

\* select(JobLogChunk).where(job_id == j).order_by(desc(seq)).limit(1),
\* then seq = last.seq + 1, or 0 without a row.
next_log_seq(job_id) ==
    LET S == {logs[i].seq : i \in {k \in DOMAIN logs : logs[k].job_id = job_id}}
    IN  IF S = {} THEN 0 ELSE (CHOOSE m \in S : \A x \in S : x <= m) + 1

\* The rows the loop over payload.chunks adds, starting at seq.
new_chunks(job_id, seq, chunks) ==
    [i \in 1 .. Len(chunks) |->
        JobLogChunk(job_id, seq + i - 1, chunks[i].stream, stored_text(chunks[i].text))]

\* An append arrives: db.get(Job, job_id), 404 without a row, and ok with
\* nothing stored unless the job is running or queued.
StartAppend(job_id, chunks) ==
    /\ BagCardinality(inflight) < MaxInflight
    /\ Len(logs) + PendingChunks + Len(chunks) <= MaxLogs
    /\ IF job_id \notin JobIds
       THEN /\ resp' = Response("append", 404, "worker", "job not found")
            /\ UNCHANGED inflight
       ELSE IF jobs[job_id].status \notin {"running", "queued"}
       THEN /\ resp' = Response("append", 200, "worker", None)
            /\ UNCHANGED inflight
       ELSE /\ inflight' = Send([op |-> "append", pc |-> "last", job |-> job_id,
                                 chunks |-> chunks, seq |-> Null])
            /\ resp' = NoResp
    /\ UNCHANGED <<now, consumers, jobs, logs, claimLog, others, page, config, worker, client>>

\* The select of the last chunk of the job.
AppendLast(r) ==
    /\ r.op = "append" /\ r.pc = "last"
    /\ inflight' = Move(r, [r EXCEPT !.pc = "insert", !.seq = next_log_seq(r.job)])
    /\ resp' = NoResp
    /\ UNCHANGED <<now, consumers, jobs, logs, claimLog, others, page, config, worker, client>>

\* db.add of every chunk, then db.commit().
AppendInsert(r) ==
    /\ r.op = "append" /\ r.pc = "insert"
    /\ logs' = logs \o new_chunks(r.job, r.seq, r.chunks)
    /\ inflight' = Drop(r)
    /\ resp' = Response("append", 200, "worker", None)
    /\ UNCHANGED <<now, consumers, jobs, claimLog, others, page, config, worker, client>>

\* ------------------------------------------------------ GET jobs/{id}/logs
Min(a, b) == IF a <= b THEN a ELSE b

Max(a, b) == IF a >= b THEN a ELSE b

\* The clamp without its floor of 1: a variant the page properties must
\* tell apart from the code's clamp.
logs_limit_without_floor(limit) == Min(limit, LOGS_LIMIT_MAX)

\* limit = max(1, min(limit, 2000))
logs_limit(limit) == Max(1, Min(limit, LOGS_LIMIT_MAX))

\* Rows S of the log table in the order of .order_by(JobLogChunk.seq); rows
\* of equal seq in rowid order.
RECURSIVE by_seq(_)
by_seq(S) ==
    IF S = {} THEN <<>>
    ELSE LET m == CHOOSE i \in S :
                    \A k \in S \ {i} :
                        \/ logs[i].seq < logs[k].seq
                        \/ logs[i].seq = logs[k].seq /\ i < k
         IN  <<m>> \o by_seq(S \ {m})

\* LogChunkOut of a stored row (ts is not modelled).
LogChunkOut(c) == [seq |-> c.seq, stream |-> c.stream, text |-> c.text]

\* The select of get_job_logs and the body built from it.
logs_page(job_id, offset_seq, limit) ==
    LET S     == {i \in DOMAIN logs :
                    logs[i].job_id = job_id /\ logs[i].seq >= offset_seq}
        all   == by_seq(S)
        rows  == SubSeq(all, 1, Min(Len(all), limit))
        chunks == [i \in 1 .. Len(rows) |-> LogChunkOut(logs[rows[i]])]
    IN  [job_id |-> job_id,
         next_offset_seq |->
            IF chunks # <<>> THEN chunks[Len(chunks)].seq + 1 ELSE offset_seq,
         chunks |-> chunks]

\* The lookup without the owner check: a variant the isolation properties
\* must tell apart from the code's condition.
job_missing(c, job_id) == job_id \notin JobIds

\* job is None or job.consumer_id != consumer.id
job_not_found(c, job_id) ==
    job_id \notin JobIds \/ jobs[job_id].consumer_id # c

\* get_job for the authenticated consumer c; the body is the row (JobOut
\* has every modelled column).
get_job(c, job_id) ==
    /\ IF job_not_found(c, job_id)
       THEN /\ resp' = Response("get", 404, c, "job not found")
            /\ page' = NoPage
       ELSE /\ resp' = Response("get", 200, c, None)
            /\ page' = jobs[job_id]
    /\ UNCHANGED <<now, consumers, jobs, logs, inflight, claimLog, others, config, worker, client>>

\* get_job_logs for the authenticated consumer c.  The handler only reads,
\* and the job row it loads first is never deleted, so it is one step.
get_job_logs(c, job_id, offset_seq, limit) ==
    /\ IF job_not_found(c, job_id)
       THEN /\ resp' = Response("logs", 404, c, "job not found")
            /\ page' = NoPage
       ELSE /\ resp' = Response("logs", 200, c, None)
            /\ page' = logs_page(job_id, offset_seq, logs_limit(limit))
    /\ UNCHANGED <<now, consumers, jobs, logs, inflight, claimLog, others, config, worker, client>>

\* offset_seq and limit query parameters: any integer.
Offsets == (0 - 1) .. MaxOffset

Limits == ((0 - 1) .. MaxLimit) \cup {LOGS_LIMIT_MAX, LOGS_LIMIT_MAX + 1}

\* ------------------------------------------------- JobFuture.iter_logs
\* A client of consumer c about to poll the logs of its job from offset 0.
JobFuture(c, job_id) ==
    [consumer |-> c, job |-> job_id, offset |-> 0, received |-> <<>>]

\* One call of iter_logs: GET /v1/jobs/{id}/logs with offset_seq = _offset,
\* the chunks of the response are yielded and _offset becomes the
\* response's next_offset_seq.
iter_logs(limit) ==
    /\ client # NoClient
    /\ ~job_not_found(client.consumer, client.job)
    /\ LET payload == logs_page(client.job, client.offset, logs_limit(limit))
       IN  /\ page' = payload
           /\ resp' = Response("logs", 200, client.consumer, None)
           /\ client' = [client EXCEPT !.offset = payload.next_offset_seq,
                                       !.received = @ \o payload.chunks]
    /\ UNCHANGED <<now, consumers, jobs, logs, inflight, claimLog, others, config, worker>>

\* ---------------------------------------------------------------- GET jobs
\* limit = max(1, min(limit, 200))
jobs_limit(limit) == Max(1, Min(limit, JOBS_LIMIT_MAX))

\* offset = max(0, offset)
jobs_offset(offset) == Max(0, offset)

\* Rows S of the job table ordered by created_at, descending or ascending;
\* rows of equal created_at in rowid order.
RECURSIVE by_created_at(_, _)
by_created_at(S, descending) ==
    IF S = {} THEN <<>>
    ELSE LET m == CHOOSE i \in S :
                    \A k \in S \ {i} :
                        \/ /\ descending
                           /\ jobs[i].created_at > jobs[k].created_at
                        \/ /\ ~descending
                           /\ jobs[i].created_at < jobs[k].created_at
                        \/ jobs[i].created_at = jobs[k].created_at /\ i < k
         IN  <<m>> \o by_created_at(S \ {m}, descending)

\* Oldest first: a variant the listing properties must tell apart from the
\* code's order.
list_order_ascending(S) == by_created_at(S, FALSE)

\* .order_by(desc(Job.created_at))
list_order(S) == by_created_at(S, TRUE)

\* The select of list_jobs and the body built from it; a job is returned
\* as its row (JobOut has every modelled column).
jobs_page(c, offset, limit) ==
    LET all  == list_order({i \in JobIds : jobs[i].consumer_id = c})
        rows == SubSeq(all, offset + 1, Min(Len(all), offset + limit))
    IN  [limit |-> limit, offset |-> offset,
         jobs |-> [i \in 1 .. Len(rows) |-> jobs[rows[i]]]]

\* The body list_jobs returns to consumer c for these query parameters.
list_response(c, offset, limit) ==
    jobs_page(c, jobs_offset(offset), jobs_limit(limit))

\* list_jobs for the authenticated consumer c: one select.
list_jobs(c, offset, limit) ==
    /\ resp' = Response("list", 200, c, None)
    /\ page' = list_response(c, offset, limit)
    /\ UNCHANGED <<now, consumers, jobs, logs, inflight, claimLog, others, config, worker, client>>

ListLimits == (0 .. MaxLimit) \cup {JOBS_LIMIT_MAX + 1}

\* ------------------------------------------------------- _require_consumer
\* Consumer.key_id, "kid_" + random, and the secret generate_api_key drew,
\* "db_" + random, of consumer c.
key_id(c) == IF c = "alice" THEN "kid_alice" ELSE "kid_bob"

api_key(c) == IF c = "alice" THEN "db_alice" ELSE "db_bob"

\* An X-Consumer-Key header is modelled split at its first ".": <<key_id,
\* rest>>; <<>> is a missing or empty header.
\* hash_api_key: PBKDF2 of the whole token, taken to be free of collisions
\* (the salt is part of the stored row and left out).
hash_api_key(token) == <<"pbkdf2">> \o token

\* Consumer.key_digest_b64 of consumer c: the hash of the token printed by
\* create_consumer.
key_digest(c) == hash_api_key(<<key_id(c), api_key(c)>>)

\* A check that takes any secret: a variant the authentication properties
\* must tell apart from the code's check.
verify_nothing(token, digest) == TRUE

\* verify_api_key
verify_api_key(token, digest) == hash_api_key(token) = digest

\* select(Consumer).where(Consumer.key_id == key_id).first(), as a set.
consumer_by_key_id(k) == {c \in DOMAIN consumers : key_id(c) = k}

\* _require_consumer: the consumer, or the HTTPException raised.
require_consumer(key) ==
    IF key = <<>>
    THEN [code |-> 401, consumer |-> None, detail |-> "missing X-Consumer-Key"]
    ELSE IF consumer_by_key_id(key[1]) = {}
    THEN [code |-> 401, consumer |-> None, detail |-> "invalid consumer key"]
    ELSE LET c == CHOOSE c \in consumer_by_key_id(key[1]) : TRUE
         IN  IF ~verify_api_key(key, key_digest(c))
             THEN [code |-> 401, consumer |-> None, detail |-> "invalid consumer key"]
             ELSE IF ~consumers[c].active
             THEN [code |-> 403, consumer |-> c, detail |-> "consumer disabled"]
             ELSE [code |-> 200, consumer |-> c, detail |-> None]

\* The request is answered by the exception _require_consumer raised.
Unauthorized(op, auth) ==
    /\ resp' = Response(op, auth.code, auth.consumer, auth.detail)
    /\ UNCHANGED <<now, consumers, jobs, logs, inflight, claimLog, others, page, config, worker, client>>

\* POST /v1/jobs with X-Consumer-Key key.
RequestCreateJob(key) ==
    LET auth == require_consumer(key)
    IN  IF auth.code # 200 THEN Unauthorized("submit", auth)
        ELSE StartSubmit(auth.consumer)

\* GET /v1/jobs with X-Consumer-Key key.
RequestListJobs(key, offset, limit) ==
    LET auth == require_consumer(key)
    IN  IF auth.code # 200 THEN Unauthorized("list", auth)
        ELSE list_jobs(auth.consumer, offset, limit)

\* GET /v1/jobs/{id}/logs with X-Consumer-Key key.
RequestJobLogs(key, job_id, offset_seq, limit) ==
    LET auth == require_consumer(key)
    IN  IF auth.code # 200 THEN Unauthorized("logs", auth)
        ELSE get_job_logs(auth.consumer, job_id, offset_seq, limit)

\* X-Consumer-Key headers: missing, and every pairing of a known or unknown
\* key_id with the secret of a consumer.
ConsumerKeys ==
    {<<>>} \cup {<<k, s>> : k \in {key_id(c) : c \in Consumers} \cup {"kid_unknown"},
                           s \in {api_key(c) : c \in Consumers}}

\* admin set_active: the consumer is enabled or disabled.
set_active(c, active) ==
    /\ consumers[c].active # active
    /\ consumers' = [consumers EXCEPT ![c].active = active]
    /\ resp' = NoResp
    /\ UNCHANGED <<now, jobs, logs, inflight, claimLog, others, page, config, worker, client>>

\* ------------------------------------------------- WS jobs/{id}/logs/ws
\* The consumer the header authenticates, or None: the lookup by key_id and
\* verify_api_key.  is_active is not read here.
ws_consumer(key) ==
    IF key = <<>> THEN None
    ELSE IF consumer_by_key_id(key[1]) = {} THEN None
    ELSE LET c == CHOOSE c \in consumer_by_key_id(key[1]) : TRUE
         IN  IF verify_api_key(key, key_digest(c)) THEN c ELSE None

\* A handler that does not compare the job's consumer: a variant the
\* properties of the socket must tell apart from the handler's check.
ws_close_code_any_owner(key, job_id) ==
    IF ws_consumer(key) = None THEN WS_UNAUTHORIZED
    ELSE IF job_id \notin JobIds THEN WS_NOT_FOUND
    ELSE 0

\* The code the handler closes the socket with before its loop, or 0.
ws_close_code(key, job_id) ==
    IF ws_consumer(key) = None THEN WS_UNAUTHORIZED
    ELSE IF job_id \notin JobIds \/ jobs[job_id].consumer_id # ws_consumer(key)
    THEN WS_NOT_FOUND
    ELSE 0

\* The sockets in the handler's loop.
Sockets == {r \in Requests : r.op = "ws"}

\* ws_job_logs up to its loop: accept, then close or enter the loop with
\* offset 0.  The reads of the consumer and the job are one step: they
\* write nothing.
ws_job_logs(key, job_id) ==
    /\ BagCardinality(inflight) < MaxInflight
    /\ IF ws_close_code(key, job_id) # 0
       THEN /\ resp' = Response("ws", ws_close_code(key, job_id), ws_consumer(key), job_id)
            /\ UNCHANGED inflight
       ELSE /\ inflight' = Send([op |-> "ws", pc |-> "loop", consumer |-> ws_consumer(key),
                                 job |-> job_id, offset |-> 0, pushed |-> <<>>,
                                 sought |-> FALSE])
            /\ resp' = NoResp
    /\ UNCHANGED <<now, consumers, jobs, logs, claimLog, others, page, config, worker, client>>

\* The rows of the select of a frame: the job's chunks with seq >= offset,
\* by seq, up to the limit.
ws_rows(job_id, offset) ==
    LET all == by_seq({i \in DOMAIN logs :
                        logs[i].job_id = job_id /\ logs[i].seq >= offset})
    IN  SubSeq(all, 1, Min(Len(all), WS_FRAME_LIMIT))

\* A loop that ignores the client's messages: a variant the properties of
\* the socket's offset must tell apart from the handler's assignment.
ws_offset_ignoring_message(offset, n) == offset

\* The offset after the receive: max(0, n) with a message "offset=n"
\* received (n # Null), else unchanged.
ws_offset(offset, n) == IF n = Null THEN offset ELSE Max(0, n)

\* One turn of the loop: the receive, then the select of up to 200 chunks
\* from offset and, if there are any, a frame and offset = the last seq +
\* 1.  pushed: the rows sent on this socket so far; sought: whether a
\* message of the client has set the offset.
ws_loop(r, n) ==
    /\ r \in Sockets
    /\ Len(r.pushed) + Len(ws_rows(r.job, ws_offset(r.offset, n))) <= MaxPushed
    /\ LET offset == ws_offset(r.offset, n)
           frame == logs_page(r.job, offset, WS_FRAME_LIMIT)
       IN  /\ inflight' = Move(r, [r EXCEPT !.offset = frame.next_offset_seq,
                                            !.pushed = @ \o ws_rows(r.job, offset),
                                            !.sought = @ \/ n # Null])
           /\ page' = IF frame.chunks = <<>> THEN page
                      ELSE [next_offset_seq |-> frame.next_offset_seq,
                            chunks |-> frame.chunks]
           /\ resp' = IF frame.chunks = <<>> THEN NoResp
                      ELSE Response("ws_frame", 0, r.consumer, r.job)
    /\ UNCHANGED <<now, consumers, jobs, logs, claimLog, others, config, worker, client>>

\* The client goes away: WebSocketDisconnect ends the loop.
ws_disconnect(r) ==
    /\ r \in Sockets
    /\ inflight' = Drop(r)
    /\ resp' = NoResp
    /\ UNCHANGED <<now, consumers, jobs, logs, claimLog, others, page, config, worker, client>>

\* --------------------------------------------------------- _require_worker
\* A check that takes any token that is present: a variant the properties
\* of the worker endpoints must tell apart from the code's check.
require_worker_any_token(worker_token) ==
    IF config.WORKER_SHARED_TOKEN = ""
    THEN [code |-> 503, detail |-> "server missing DISTBUILD_WORKER_SHARED_TOKEN"]
    ELSE IF worker_token = ""
    THEN [code |-> 401, detail |-> "invalid worker token"]
    ELSE [code |-> 200, detail |-> None]

\* _require_worker: ok, or the HTTPException raised.  "" is a missing or
\* empty X-Worker-Token header, or an unset DISTBUILD_WORKER_SHARED_TOKEN.
require_worker(worker_token) ==
    IF config.WORKER_SHARED_TOKEN = ""
    THEN [code |-> 503, detail |-> "server missing DISTBUILD_WORKER_SHARED_TOKEN"]
    ELSE IF worker_token = "" \/ worker_token # config.WORKER_SHARED_TOKEN
    THEN [code |-> 401, detail |-> "invalid worker token"]
    ELSE [code |-> 200, detail |-> None]

\* The request is answered by the exception _require_worker raised.
WorkerRejected(op, auth) ==
    /\ resp' = Response(op, auth.code, "worker", auth.detail)
    /\ UNCHANGED <<now, consumers, jobs, logs, inflight, claimLog, others, page, config, worker, client>>

\* POST /v1/worker/claim with X-Worker-Token worker_token.
RequestClaim(worker_token, h) ==
    LET auth == require_worker(worker_token)
    IN  IF auth.code # 200 THEN WorkerRejected("claim", auth) ELSE StartClaim(h)

\* POST /v1/worker/jobs/{id}/logs with X-Worker-Token worker_token.
RequestAppend(worker_token, job_id, chunks) ==
    LET auth == require_worker(worker_token)
    IN  IF auth.code # 200 THEN WorkerRejected("append", auth)
        ELSE StartAppend(job_id, chunks)

\* POST /v1/worker/jobs/{id}/finish with X-Worker-Token worker_token, sent
\* for a running job with the worker's payloads.
RequestFinish(worker_token, job_id, payload) ==
    LET auth == require_worker(worker_token)
    IN  IF auth.code # 200 THEN WorkerRejected("finish", auth)
        ELSE Finish(job_id, payload)

\* X-Worker-Token headers: missing, the configured token, another token.
WorkerTokens == {"", "token", "other"}

\* Server configurations: with and without a worker token.
Configs ==
    {[WORKER_SHARED_TOKEN |-> t, ALLOW_LOCAL_SANDBOX |-> a] :
        t \in {"", "token"}, a \in BOOLEAN}

\* ------------------------------------------------- POST jobs: the payload
SandboxType == {"local", "docker"}

\* Bodies of POST /v1/jobs: the command by its length, timeout_seconds and
\* sandbox at and around the limits of JobCreate.
JobCreates ==
    [command_length : {0, 1, COMMAND_MAX_LENGTH, COMMAND_MAX_LENGTH + 1},
     timeout_seconds : {0, 1, TIMEOUT_SECONDS_MAX, TIMEOUT_SECONDS_MAX + 1},
     sandbox : SandboxType \cup {"vm"}]

\* JobCreate: the field constraints pydantic checks.
JobCreate_valid(payload) ==
    /\ payload.command_length >= 1
    /\ payload.command_length <= COMMAND_MAX_LENGTH
    /\ payload.timeout_seconds >= 1
    /\ payload.timeout_seconds <= TIMEOUT_SECONDS_MAX
    /\ payload.sandbox \in SandboxType

\* create_job for the authenticated consumer c with a body.  A body that
\* fails JobCreate never reaches the handler: FastAPI answers it 422 (api.py
\* installs no handler for the validation error).
create_job(c, payload) ==
    IF ~JobCreate_valid(payload)
    THEN /\ resp' = Response("submit", 422, c, "validation error")
         /\ UNCHANGED <<now, consumers, jobs, logs, inflight, claimLog, others, page, config, worker, client>>
    ELSE IF payload.sandbox = "local" /\ ~config.ALLOW_LOCAL_SANDBOX
    THEN /\ resp' = Response("submit", 400, c, "local sandbox disabled on this server")
         /\ UNCHANGED <<now, consumers, jobs, logs, inflight, claimLog, others, page, config, worker, client>>
    ELSE StartSubmit(c)

\* ------------------------------------------------------ the worker process
\* worker.py main() from the claim response on, and sandbox.run_local.  The
\* process has three threads once the child is started: the main thread and
\* one pump per pipe.  Python switches threads between bytecodes, so each
\* thread takes one step per statement that reads or writes what the
\* threads share (seq_buf) or that talks to the coordinator.
Threads == {"main", "stdout", "stderr"}

Pumps == {"stdout", "stderr"}

\* The records on_log builds (the ts is left out).
LogRecord(stream, text) == [seq |-> 0, stream |-> stream, text |-> text]

ClaimedRecord == LogRecord("system", <<"claimed job">>)

TimeoutRecord == LogRecord("system", <<"timeout after Ns">>)

ExceptionRecord == LogRecord("system", <<"worker exception">>)

\* The worker right after a claim response that returned the job: nothing
\* buffered, no child, exit_code and err not assigned yet.  lines: what the
\* child will write to each pipe.
WorkerClaimed(job_id, lines) ==
    [alive |-> TRUE,
     pc |-> [t \in Threads |-> IF t = "main" THEN "claimed" ELSE "off"],
     ret |-> [t \in Threads |-> None],
     arg |-> [t \in Threads |-> None],
     job |-> job_id,
     timeout_seconds |-> TimeoutSeconds,
     sandbox |-> "local",
     net |-> "none",
     seq_buf |-> <<>>,
     emitted |-> <<>>,
     sent |-> <<>>,
     child |-> "none",
     child_rc |-> Null,
     started |-> Null,
     pipe |-> [t \in Pumps |-> lines[t]],
     rc |-> Null,
     exit_code |-> Null,
     err |-> None]

NoLines == [t \in Pumps |-> <<>>]

\* Thread t is at pc.
At(t, pc) == worker # NoWorker /\ worker.alive /\ worker.pc[t] = pc

\* Thread t calls on_log(record) and goes on at ret when it returns.
call_on_log(w, t, record, ret) ==
    [w EXCEPT !.pc[t] = "on_log", !.arg[t] = record, !.ret[t] = ret]

\* Thread t calls flush() and goes on at ret when it returns.
call_flush(w, t, ret) == [w EXCEPT !.pc[t] = "flush", !.ret[t] = ret]

\* Thread t returns from on_log or flush.
return(w, t) == [w EXCEPT !.pc[t] = w.ret[t], !.ret[t] = None, !.arg[t] = None]

\* A step of the worker that leaves the coordinator alone.
WorkerStep(w) ==
    /\ worker' = w
    /\ resp' = NoResp
    /\ UNCHANGED <<now, consumers, jobs, logs, inflight, claimLog, others, page,
                   config, client>>

\* on_log("system", "claimed job ..."), the first statement after the claim.
LogClaimed ==
    /\ At("main", "claimed")
    /\ WorkerStep(call_on_log(worker, "main", ClaimedRecord, "first_flush"))

\* seq_buf.append(...) in on_log.
OnLogAppend(t) ==
    /\ At(t, "on_log")
    /\ WorkerStep([worker EXCEPT !.seq_buf = Append(@, worker.arg[t]),
                                 !.emitted = Append(@, worker.arg[t]),
                                 !.pc[t] = "on_log_len"])

\* if len(seq_buf) >= 50: flush()
OnLogLen(t) ==
    /\ At(t, "on_log_len")
    /\ WorkerStep(IF Len(worker.seq_buf) >= FlushAt
                  THEN [worker EXCEPT !.pc[t] = "flush"]
                  ELSE return(worker, t))

\* The flush() after the first on_log.
FirstFlush ==
    /\ At("main", "first_flush")
    /\ WorkerStep(call_flush(worker, "main", "run_sandbox"))

\* if not seq_buf: return
FlushTest(t) ==
    /\ At(t, "flush")
    /\ WorkerStep(IF worker.seq_buf = <<>>
                  THEN return(worker, t)
                  ELSE [worker EXCEPT !.pc[t] = "post"])

\* The append-logs request of thread t, as the handler holds it.
AppendRequest(t, chunks) ==
    [op |-> "append", pc |-> "last", job |-> worker.job, chunks |-> chunks,
     seq |-> Null, from |-> t]

\* The requests of thread t being served.
Posted(t) == {r \in Requests : r.op = "append" /\ "from" \in DOMAIN r /\ r.from = t}

\* client.post(.../logs, json={"chunks": seq_buf}): the request carries the
\* buffer as it is now and reaches worker_append_logs, which stores nothing
\* unless the job is running or queued.
FlushPost(t) ==
    /\ At(t, "post")
    /\ worker' = [worker EXCEPT !.pc[t] = "posting", !.sent = @ \o worker.seq_buf]
    /\ inflight' =
            IF worker.job \in JobIds /\ jobs[worker.job].status \in {"running", "queued"}
            THEN Send(AppendRequest(t, worker.seq_buf))
            ELSE inflight
    /\ resp' = NoResp
    /\ UNCHANGED <<now, consumers, jobs, logs, claimLog, others, page, config, client>>

\* The response arrived with a 2xx status: seq_buf = [].
FlushReset(t) ==
    /\ At(t, "posting")
    /\ Posted(t) = {}
    /\ WorkerStep(return([worker EXCEPT !.seq_buf = <<>>], t))

\* Where an exception raised in thread t by flush() goes, by the place the
\* call returns to.  In the main thread: the timeout's on_log is inside
\* run_sandbox, hence inside the worker's try, and the except clause takes
\* it; the except clause's own on_log is followed by the finally clause's
\* flush() and the exception goes on after it; the first flush() and the
\* finally clause's flush() are outside every handler but the one for
\* KeyboardInterrupt, and the exception leaves main().  A pump thread ends.
raise_from_flush(w, t) ==
    IF t # "main" THEN [w EXCEPT !.pc[t] = "ended", !.ret[t] = None, !.arg[t] = None]
    ELSE IF w.ret[t] = "kill"
    THEN call_on_log([w EXCEPT !.err = "worker exception"], t, ExceptionRecord,
                     "finally_flush")
    ELSE IF w.ret[t] = "finally_flush"
    THEN call_flush(w, t, "raise")
    ELSE [w EXCEPT !.alive = FALSE]

\* The POST of the log chunks fails: no connection, or a response that
\* raise_for_status rejects.  Nothing is stored.
FlushFails(t) ==
    /\ At(t, "post")
    /\ WorkerStep(raise_from_flush(worker, t))

\* The finally clause's flush() after the except clause ran.
FinallyFlush ==
    /\ At("main", "finally_flush")
    /\ WorkerStep(call_flush(worker, "main", "finish"))

\* The exception raised in the except clause goes on after the finally
\* clause and leaves main().
Reraise ==
    /\ At("main", "raise")
    /\ WorkerStep([worker EXCEPT !.alive = FALSE])

\* run_local: subprocess.Popen(command, ...), for a local job or as the
\* fallback of run_docker.
Popen ==
    /\ \/ At("main", "run_sandbox") /\ worker.sandbox # "docker"
       \/ At("main", "run_local")
    /\ WorkerStep([worker EXCEPT !.pc = [t \in Threads |->
                                            IF t = "main" THEN "wait" ELSE "readline"],
                                 !.exit_code = 1,
                                 !.child = "running",
                                 !.started = now])

\* Lines the child writes to its pipes.
OutLine == <<"out">>

Out2Line == <<"out2">>

ErrLine == <<"err">>

\* for line in iter(f.readline, ""): on_log(stream_name, line).  The pipe
\* holds the lines the child wrote that the pump has not read.
PumpRead(t) ==
    /\ t \in Pumps
    /\ At(t, "readline")
    /\ worker.pipe[t] # <<>>
    /\ WorkerStep(call_on_log([worker EXCEPT !.pipe[t] = Tail(@)], t,
                              LogRecord(t, Head(worker.pipe[t])), "readline"))

\* readline returns "": the pipe is empty and the child is gone.
PumpEof(t) ==
    /\ t \in Pumps
    /\ At(t, "readline")
    /\ worker.pipe[t] = <<>>
    /\ worker.child \in {"exited", "killed"}
    /\ WorkerStep([worker EXCEPT !.pc[t] = "ended"])

\* The child exits by itself, with any code.
ChildExits(code) ==
    /\ worker # NoWorker /\ worker.alive
    /\ worker.child = "running"
    /\ WorkerStep([worker EXCEPT !.child = "exited", !.child_rc = code])

\* rc = p.wait(timeout=timeout_seconds) returns the child's code.
WaitReturns ==
    /\ At("main", "wait")
    /\ worker.child = "exited"
    /\ WorkerStep([worker EXCEPT !.pc["main"] = "join", !.rc = worker.child_rc])

\* p.wait() without a timeout: a variant the termination of a job's
\* execution must tell apart from p.wait(timeout=...).
wait_never_expires(w) == FALSE

\* A wait that gives up whenever the child is still running: a variant the
\* properties of the timeout must tell apart from p.wait(timeout=...).
wait_expired_at_once(w) == w.child = "running"

\* p.wait(timeout=timeout_seconds) gives up: the child is still running
\* timeout_seconds after the wait began.
wait_expired(w) ==
    /\ w.child = "running"
    /\ now - w.started >= w.timeout_seconds

\* p.wait raises TimeoutExpired.  on_log("system", "timeout after Ns")
\* comes first.
WaitTimesOut ==
    /\ At("main", "wait")
    /\ wait_expired(worker)
    /\ WorkerStep(call_on_log(worker, "main", TimeoutRecord, "kill"))

\* p.kill(); rc = 124.  The child may have exited by itself meanwhile.
Kill ==
    /\ At("main", "kill")
    /\ WorkerStep([worker EXCEPT !.pc["main"] = "join",
                                 !.child = IF @ = "running" THEN "killed" ELSE @,
                                 !.rc = 124])

\* t1.join(timeout=1.0); t2.join(timeout=1.0); in run_docker the removal
\* of a network that was created; return rc, which the worker assigns to
\* exit_code; then the flush() of the finally clause.
JoinAndReturn ==
    /\ At("main", "join")
    /\ worker.net # "created"
    /\ WorkerStep(call_flush([worker EXCEPT !.exit_code = worker.rc], "main", "finish"))

\* ------------------------------------------------------------- run_docker
WarningRecord == LogRecord("system", <<"warning: failed to remove job network">>)

NetworkFailedRecord == LogRecord("system", <<"failed to create job network">>)

\* The worker's except clause, for an exception that leaves run_sandbox.
except_clause(w) ==
    call_on_log([w EXCEPT !.err = "worker exception"], "main", ExceptionRecord,
                "finally_flush")

\* shutil.which("docker") is None: fall back to run_local.
DockerMissing ==
    /\ At("main", "run_sandbox") /\ worker.sandbox = "docker"
    /\ WorkerStep([worker EXCEPT !.pc["main"] = "run_local", !.exit_code = 1])

\* docker info fails or cannot be run: return 126.
DockerUnusable ==
    /\ At("main", "run_sandbox") /\ worker.sandbox = "docker"
    /\ WorkerStep(call_flush([worker EXCEPT !.exit_code = 126], "main", "finish"))

\* docker info succeeds; network mode job: docker network create, which
\* succeeds (created_network = True) or fails (a system record, the bridge
\* network is used).
NetworkCreate(created) ==
    /\ At("main", "run_sandbox") /\ worker.sandbox = "docker"
    /\ WorkerStep(IF created
                  THEN [worker EXCEPT !.pc["main"] = "docker_popen", !.exit_code = 1,
                                      !.net = "created"]
                  ELSE call_on_log([worker EXCEPT !.exit_code = 1], "main",
                                   NetworkFailedRecord, "docker_popen"))

\* What the handler of a failed Popen does with a created network: docker
\* network rm.
popen_failed_net(net) == IF net = "created" THEN "removed" ELSE net

\* What the handler of a failed write to stdin does with the network:
\* nothing.
stdin_failed_net(net) == net

\* subprocess.Popen(docker_cmd, ...): the container starts, or Popen raises
\* and the handler removes a created network and re-raises.
DockerPopen(raised) ==
    /\ At("main", "docker_popen")
    /\ WorkerStep(IF raised
                  THEN except_clause([worker EXCEPT !.net = popen_failed_net(@)])
                  ELSE [worker EXCEPT !.pc["main"] = "stdin_write",
                                      !.child = "running",
                                      !.started = now])

\* p.stdin.write(script); p.stdin.close(): done and the pumps start, or it
\* raises and the handler kills the child and re-raises.
StdinWrite(raised) ==
    /\ At("main", "stdin_write")
    /\ WorkerStep(IF raised
                  THEN except_clause([worker EXCEPT
                            !.child = IF @ = "running" THEN "killed" ELSE @,
                            !.net = stdin_failed_net(@)])
                  ELSE [worker EXCEPT !.pc = [t \in Threads |->
                                            IF t = "main" THEN "wait" ELSE "readline"]])

\* After the joins: docker network rm for a created network.  If it fails
\* a warning is logged.
NetworkRemove(removed) ==
    /\ At("main", "join")
    /\ worker.net = "created"
    /\ WorkerStep(IF removed
                  THEN [worker EXCEPT !.net = "removed"]
                  ELSE call_on_log([worker EXCEPT !.net = "removed"], "main",
                                   WarningRecord, "join"))

\* status = ...; client.post(.../finish, json={...}): worker_finish writes
\* the row.  The worker goes back to claiming.
PostFinish ==
    /\ At("main", "finish")
    /\ LET payload ==
            [status |-> IF worker.err = None /\ worker.exit_code = 0
                        THEN "succeeded" ELSE "failed",
             exit_code |-> worker.exit_code,
             error |-> worker.err]
       IN  IF worker.job \in JobIds
           THEN /\ jobs' = [jobs EXCEPT ![worker.job] = finished_row(@, payload)]
                /\ resp' = Response("finish", 200, "worker", None)
           ELSE /\ resp' = Response("finish", 404, "worker", "job not found")
                /\ UNCHANGED jobs
    /\ worker' = [worker EXCEPT !.pc["main"] = "claim"]
    /\ UNCHANGED <<now, consumers, logs, inflight, claimLog, others, page, config, client>>

\* ------------------------------------------------------ the worker's loop
\* --poll-interval values (the default is 1.0): lengths time.sleep takes.
PollIntervals == {0, 2}

\* The worker before its first claim.  got: the jobs its claims returned;
\* since, sleep: the start and the length of the time.sleep it is in.
WorkerIdle(poll_interval) ==
    [poll_interval |-> poll_interval, since |-> Null, sleep |-> Null, got |-> <<>>]
        @@ [WorkerClaimed(0, NoLines) EXCEPT !.pc["main"] = "claim"]

\* The worker is in its claim loop.
InLoop == worker # NoWorker /\ "got" \in DOMAIN worker

\* The claim requests being served.
PostedClaims == {r \in Requests : r.op = "claim"}

\* r = client.post("/v1/worker/claim"): the request reaches worker_claim,
\* which runs its first select.  The worker is the only one to claim, so
\* the length of claimLog tells whether its request claimed a job.
PostClaim ==
    /\ InLoop /\ At("main", "claim")
    /\ now + worker.timeout_seconds <= MaxTime
    /\ ClaimSelect([op |-> "claim", pc |-> "select", attempt |-> 1, job |-> 0,
                    worker_id |-> None], inflight)
    /\ worker' = [worker EXCEPT !.pc["main"] = "claiming", !.arg["main"] = Len(claimLog)]
    /\ UNCHANGED <<now, consumers, jobs, logs, claimLog, others, page, config, client>>

\* time.sleep(seconds) begins; a negative length raises ValueError, which
\* no handler of main() takes.
sleep(w, seconds) ==
    IF seconds < 0
    THEN [w EXCEPT !.alive = FALSE]
    ELSE [w EXCEPT !.pc["main"] = "sleep", !.since = now, !.sleep = seconds,
                   !.arg["main"] = None]

\* A back-off of poll_interval after a failed claim: a variant the
\* properties of the back-off must tell apart from max(poll_interval, 1.0).
backoff_poll_interval(poll_interval) == poll_interval

\* max(args.poll_interval, 1.0)
backoff(poll_interval) == Max(poll_interval, 1)

\* The claim request fails: an error status (HTTPStatusError) or no
\* response (any other exception).  Both handlers sleep and continue.
ClaimFailed ==
    /\ InLoop /\ At("main", "claim")
    /\ WorkerStep(sleep(worker, backoff(worker.poll_interval)))

\* job_id = job["id"] ...; seq_buf = []; the definitions of flush and
\* on_log: the names are rebound, the threads of earlier jobs go on.
claimed(w, job_id) ==
    [w EXCEPT !.pc["main"] = "claimed", !.arg["main"] = None,
              !.job = job_id, !.got = Append(@, job_id),
              !.seq_buf = <<>>, !.rc = Null, !.exit_code = Null, !.err = None]

\* data = r.json(); job = data.get("job"): nothing, and the worker sleeps
\* poll_interval, or a job, and the worker goes on to run it.
ClaimReturned ==
    /\ InLoop /\ At("main", "claiming")
    /\ PostedClaims = {}
    /\ WorkerStep(IF Len(claimLog) > worker.arg["main"]
                  THEN claimed(worker, CHOOSE j \in JobIds :
                                           jobs[j].id = claimLog[Len(claimLog)])
                  ELSE sleep(worker, worker.poll_interval))

\* time.sleep returns; continue.
Wake ==
    /\ InLoop /\ At("main", "sleep")
    /\ now - worker.since >= worker.sleep
    /\ WorkerStep([worker EXCEPT !.pc["main"] = "claim", !.since = Null, !.sleep = Null])

\* ------------------------------------------------------------------- clock
Tick ==
    /\ now < MaxTime
    /\ now' = now + 1
    /\ resp' = NoResp
    /\ UNCHANGED <<consumers, jobs, logs, inflight, claimLog, others, page, config, worker, client>>

\* The clock, while the worker is in a timed wait that has not expired.
TickWait ==
    /\ InLoop
    /\ \/ At("main", "wait") /\ worker.child = "running" /\ ~wait_expired(worker)
       \/ At("main", "sleep") /\ now - worker.since < worker.sleep
    /\ Tick

\* ----------------------------------------------------------- specification
Init ==
    /\ now = 0
    /\ consumers = [c \in Consumers |-> ConsumerRow(c)]
    /\ jobs = <<>>
    /\ logs = <<>>
    /\ inflight = EmptyBag
    /\ resp = NoResp
    /\ claimLog = <<>>
    /\ others = 0
    /\ page = NoPage
    /\ config = DefaultConfig
    /\ worker = NoWorker
    /\ client = NoClient

\* The row a claim leaves.
Claimed(job) ==
    [job EXCEPT !.status = "running", !.started_at = 0, !.worker_id = "worker"]

\* The state after alice and bob each submitted a job and both jobs were
\* claimed: two running jobs, the one inserted first with the greater id.
InitRunning ==
    /\ now = 0
    /\ consumers = [c \in Consumers |-> ConsumerRow(c)]
    /\ jobs = <<Claimed(Job(2, "alice", 0)), Claimed(Job(1, "bob", 0))>>
    /\ logs = <<>>
    /\ inflight = EmptyBag
    /\ resp = NoResp
    /\ claimLog = <<2, 1>>
    /\ others = 0
    /\ page = NoPage
    /\ config = DefaultConfig
    /\ worker = NoWorker
    /\ client = NoClient

\* A server with any configuration, after alice and bob each submitted a
\* job: two queued jobs, the one inserted first with the greater id.
InitQueued ==
    /\ now = 0
    /\ consumers = [c \in Consumers |-> ConsumerRow(c)]
    /\ jobs = <<Job(2, "alice", 0), Job(1, "bob", 0)>>
    /\ logs = <<>>
    /\ inflight = EmptyBag
    /\ resp = NoResp
    /\ claimLog = <<>>
    /\ others = 0
    /\ page = NoPage
    /\ config \in Configs
    /\ worker = NoWorker
    /\ client = NoClient

\* A server started with any configuration, on empty tables.
InitConfigured ==
    /\ now = 0
    /\ consumers = [c \in Consumers |-> ConsumerRow(c)]
    /\ jobs = <<>>
    /\ logs = <<>>
    /\ inflight = EmptyBag
    /\ resp = NoResp
    /\ claimLog = <<>>
    /\ others = 0
    /\ page = NoPage
    /\ config \in Configs
    /\ worker = NoWorker
    /\ client = NoClient

\* The job ids a finish request may name: the rows, and one id with no row.
FinishTargets == 1 .. (Len(jobs) + 1)

\* Submissions, claims and the worker's finish of the job it ran.
NextPipeline ==
    \/ \E c \in Consumers : StartSubmit(c)
    \/ \E r \in Requests : SubmitRecent(r)
    \/ \E r \in Requests : SubmitInsert(r)
    \/ \E h \in WorkerIdHeaders : StartClaim(h)
    \/ \E r \in Requests : ClaimRetry(r)
    \/ \E r \in Requests : ClaimQuota(r)
    \/ \E r \in Requests : ClaimUpdate(r)
    \/ \E j \in JobIds, p \in WorkerPayloads : Finish(j, p)

\* The pipeline as time passes.
NextWorker ==
    \/ NextPipeline
    \/ Tick

\* The pipeline as time passes, plus repeated finish requests.
NextRepeat ==
    \/ NextWorker
    \/ \E j \in JobIds : FinishAgain(j)

\* The pipeline plus every other finish request the endpoint accepts.
NextApi ==
    \/ NextPipeline
    \/ \E j \in FinishTargets, p \in WorkerPayloads \cup OtherPayloads :
            FinishOther(j, p)

\* The pipeline plus concurrent log appends.
NextLogs ==
    \/ NextPipeline
    \/ \E j \in FinishTargets, p \in LogPayloads : StartAppend(j, p)
    \/ \E r \in Requests : AppendLast(r)
    \/ \E r \in Requests : AppendInsert(r)

\* Appends to a running job, of texts of every length around MAX_LOG_CHARS.
NextTruncate ==
    \/ \E j \in JobIds, p \in TextPayloads : StartAppend(j, p)
    \/ \E r \in Requests : AppendLast(r)
    \/ \E r \in Requests : AppendInsert(r)

\* Appends to the running jobs and reads of their logs.
NextReadLogs ==
    \/ \E j \in FinishTargets, p \in LogPayloads : StartAppend(j, p)
    \/ \E r \in Requests : AppendLast(r)
    \/ \E r \in Requests : AppendInsert(r)
    \/ \E c \in Consumers, j \in FinishTargets, o \in Offsets, l \in Limits :
            get_job_logs(c, j, o, l)

\* Submissions as time passes, and listings of the jobs.
NextList ==
    \/ \E c \in Consumers : StartSubmit(c)
    \/ \E r \in Requests : SubmitRecent(r)
    \/ \E r \in Requests : SubmitInsert(r)
    \/ Tick
    \/ \E c \in Consumers, o \in Offsets, l \in ListLimits : list_jobs(c, o, l)

\* Requests of the REST endpoints with any X-Consumer-Key, while consumers
\* are disabled and enabled.
NextAuth ==
    \/ \E key \in ConsumerKeys : RequestCreateJob(key)
    \/ \E r \in Requests : SubmitRecent(r)
    \/ \E r \in Requests : SubmitInsert(r)
    \/ \E key \in ConsumerKeys, o \in {0}, l \in {1} : RequestListJobs(key, o, l)
    \/ \E key \in ConsumerKeys, j \in FinishTargets, o \in {0}, l \in {1} :
            RequestJobLogs(key, j, o, l)
    \/ \E c \in Consumers, active \in BOOLEAN : set_active(c, active)

\* Requests of the worker endpoints with any X-Worker-Token.
NextWorkerAuth ==
    \/ \E t \in WorkerTokens, h \in WorkerIdHeaders : RequestClaim(t, h)
    \/ \E r \in Requests : ClaimRetry(r)
    \/ \E r \in Requests : ClaimQuota(r)
    \/ \E r \in Requests : ClaimUpdate(r)
    \/ \E t \in WorkerTokens, j \in FinishTargets, p \in WorkerPayloads :
            RequestFinish(t, j, p)
    \/ \E t \in WorkerTokens, j \in FinishTargets, p \in LogPayloads :
            RequestAppend(t, j, p)
    \/ \E r \in Requests : AppendLast(r)
    \/ \E r \in Requests : AppendInsert(r)

\* Appends to the running jobs and reads by both consumers.
NextRead ==
    \/ NextReadLogs
    \/ \E c \in Consumers, j \in FinishTargets : get_job(c, j)
    \/ \E c \in Consumers, o \in Offsets, l \in ListLimits : list_jobs(c, o, l)

\* Submissions with any body.
NextValidate ==
    \/ \E c \in Consumers, payload \in JobCreates : create_job(c, payload)
    \/ \E r \in Requests : SubmitRecent(r)
    \/ \E r \in Requests : SubmitInsert(r)
    \/ Tick

\* WebSocket connections of every caller to every job while chunks are
\* appended.
NextWs ==
    \/ \E key \in ConsumerKeys, j \in FinishTargets : ws_job_logs(key, j)
    \/ \E r \in Requests, n \in {Null, 0 - 2, 0, 1} : ws_loop(r, n)
    \/ \E r \in Requests : ws_disconnect(r)
    \/ \E j \in JobIds, p \in LogPayloads : StartAppend(j, p)
    \/ \E r \in Requests : AppendLast(r)
    \/ \E r \in Requests : AppendInsert(r)

\* Two running jobs, and alice's client about to poll the logs of hers.
InitPoll ==
    /\ InitRunning!1 /\ InitRunning!2 /\ InitRunning!3 /\ InitRunning!4
    /\ InitRunning!5 /\ InitRunning!6 /\ InitRunning!7 /\ InitRunning!8
    /\ InitRunning!9 /\ InitRunning!10 /\ InitRunning!11
    /\ client = JobFuture("alice", 1)

\* The client polls while chunks are appended and the jobs are finished.
NextPoll ==
    \/ \E limit \in {1, POLL_LIMIT} : iter_logs(limit)
    \/ \E j \in JobIds, p \in LogPayloads : StartAppend(j, p)
    \/ \E r \in Requests : AppendLast(r)
    \/ \E r \in Requests : AppendInsert(r)
    \/ \E j \in JobIds, p \in WorkerPayloads : Finish(j, p)

\* The worker right after it claimed the first of two running jobs and
\* before its first statement; the child will write nothing.
InitExecute ==
    /\ now = 0
    /\ consumers = [c \in Consumers |-> ConsumerRow(c)]
    /\ jobs = <<Claimed(Job(2, "alice", 0)), Claimed(Job(1, "bob", 0))>>
    /\ logs = <<>>
    /\ inflight = EmptyBag
    /\ resp = NoResp
    /\ claimLog = <<2, 1>>
    /\ others = 0
    /\ page = NoPage
    /\ config = DefaultConfig
    /\ worker = WorkerClaimed(1, NoLines)
    /\ client = NoClient

\* The main thread of the worker running a job in the local sandbox, the
\* coordinator serving its requests, and the clock.
NextExecute ==
    \/ LogClaimed
    \/ OnLogAppend("main")
    \/ OnLogLen("main")
    \/ FirstFlush
    \/ FlushTest("main")
    \/ FlushPost("main")
    \/ FlushReset("main")
    \/ Popen
    \/ \E code \in ExitCodes : ChildExits(code)
    \/ WaitReturns
    \/ WaitTimesOut
    \/ Kill
    \/ JoinAndReturn
    \/ PostFinish
    \/ \E t \in Pumps : PumpEof(t)
    \/ \E r \in Requests : AppendLast(r)
    \/ \E r \in Requests : AppendInsert(r)
    \/ Tick

\* The worker after the claim of a docker job.
InitDocker ==
    /\ InitExecute!1 /\ InitExecute!2 /\ InitExecute!3 /\ InitExecute!4
    /\ InitExecute!5 /\ InitExecute!6 /\ InitExecute!7 /\ InitExecute!8
    /\ InitExecute!9 /\ InitExecute!10
    /\ worker = [WorkerClaimed(1, NoLines) EXCEPT !.sandbox = "docker"]
    /\ client = NoClient

\* The main thread of the worker running a job in a container.
NextDocker ==
    \/ NextExecute
    \/ DockerMissing
    \/ DockerUnusable
    \/ \E created \in BOOLEAN : NetworkCreate(created)
    \/ \E raised \in BOOLEAN : DockerPopen(raised)
    \/ \E raised \in BOOLEAN : StdinWrite(raised)
    \/ \E removed \in BOOLEAN : NetworkRemove(removed)
    \/ FinallyFlush

\* The pump threads reading what the child wrote.
NextPumps ==
    \/ \E t \in Pumps : PumpRead(t)
    \/ \E t \in Pumps : OnLogAppend(t)
    \/ \E t \in Pumps : OnLogLen(t)
    \/ \E t \in Pumps : FlushTest(t)
    \/ \E t \in Pumps : FlushPost(t)
    \/ \E t \in Pumps : FlushReset(t)

\* The worker after the claim, running a child that writes two lines to
\* stdout and one to stderr.
InitThreads ==
    /\ InitExecute!1 /\ InitExecute!2 /\ InitExecute!3 /\ InitExecute!4
    /\ InitExecute!5 /\ InitExecute!6 /\ InitExecute!7 /\ InitExecute!8
    /\ InitExecute!9 /\ InitExecute!10
    /\ worker = WorkerClaimed(1, [t \in Pumps |-> IF t = "stdout"
                                                  THEN <<OutLine, Out2Line>>
                                                  ELSE <<ErrLine>>])
    /\ client = NoClient

\* All the threads of the worker running a child that exits with 0 before
\* its timeout; every POST succeeds.
NextThreads ==
    \/ LogClaimed
    \/ FirstFlush
    \/ Popen
    \/ ChildExits(0)
    \/ WaitReturns
    \/ JoinAndReturn
    \/ PostFinish
    \/ \E t \in Pumps : PumpRead(t)
    \/ \E t \in Pumps : PumpEof(t)
    \/ \E t \in Threads : OnLogAppend(t)
    \/ \E t \in Threads : OnLogLen(t)
    \/ \E t \in Threads : FlushTest(t)
    \/ \E t \in Threads : FlushPost(t)
    \/ \E t \in Threads : FlushReset(t)
    \/ \E r \in Requests : AppendLast(r)
    \/ \E r \in Requests : AppendInsert(r)

\* Claim requests of several workers, the finish of the jobs they return,
\* and the admin enabling and disabling consumers.
NextClaims ==
    \/ \E h \in WorkerIdHeaders : StartClaim(h)
    \/ \E r \in Requests : ClaimRetry(r)
    \/ \E r \in Requests : ClaimQuota(r)
    \/ \E r \in Requests : ClaimUpdate(r)
    \/ \E j \in JobIds, p \in WorkerPayloads : Finish(j, p)
    \/ \E c \in Consumers, active \in BOOLEAN : set_active(c, active)

\* One queued job of bob.
InitOne ==
    /\ InitExecute!1 /\ InitExecute!2
    /\ jobs = <<Job(1, "bob", 0)>>
    /\ InitExecute!4 /\ InitExecute!5 /\ InitExecute!6
    /\ claimLog = <<>>
    /\ InitExecute!8 /\ InitExecute!9 /\ InitExecute!10
    /\ worker = NoWorker
    /\ client = NoClient

\* A claim request of one of many workers.
StartClaimOfMany(h) ==
    /\ BagCardinality(inflight) < MaxInflight
    /\ Len(claimLog) < MaxSteals
    /\ ClaimSelect([op |-> "claim", pc |-> "select", attempt |-> 1, job |-> 0,
                    worker_id |-> h], inflight)
    /\ UNCHANGED <<now, consumers, jobs, logs, claimLog, others, page, config, worker, client>>

\* A finish request that puts a running job back to queued: FinishJobIn
\* takes any JobStatus.
Requeue(job_id) ==
    /\ job_id \in JobIds
    /\ jobs[job_id].status = "running"
    /\ worker_finish(job_id, [status |-> "queued", exit_code |-> Null, error |-> None])
    /\ UNCHANGED others

\* Claim requests racing for a job that is put back to queued each time it
\* was claimed, and the admin.
NextExhaust ==
    \/ \E h \in WorkerIdHeaders : StartClaimOfMany(h)
    \/ \E r \in Requests : ClaimRetry(r)
    \/ \E r \in Requests : ClaimQuota(r)
    \/ \E r \in Requests : ClaimUpdate(r)
    \/ \E j \in JobIds : Requeue(j)
    \/ \E c \in Consumers, active \in BOOLEAN : set_active(c, active)

\* The log WebSockets, with the admin enabling and disabling consumers.
NextWsAdmin ==
    \/ NextWs
    \/ \E c \in Consumers, active \in BOOLEAN : set_active(c, active)

\* A worker started with any poll interval, after alice and bob each
\* submitted a job.
InitLoop ==
    /\ InitExecute!1 /\ InitExecute!2
    /\ jobs = <<Job(2, "alice", 0), Job(1, "bob", 0)>>
    /\ InitExecute!4 /\ InitExecute!5 /\ InitExecute!6
    /\ claimLog = <<>>
    /\ InitExecute!8 /\ InitExecute!9 /\ InitExecute!10
    /\ \E p \in PollIntervals : worker = WorkerIdle(p)
    /\ client = NoClient

\* A worker started with --poll-interval 0.
InitLoopOk ==
    /\ InitExecute!1 /\ InitExecute!2
    /\ jobs = <<Job(2, "alice", 0), Job(1, "bob", 0)>>
    /\ InitExecute!4 /\ InitExecute!5 /\ InitExecute!6
    /\ claimLog = <<>>
    /\ InitExecute!8 /\ InitExecute!9 /\ InitExecute!10
    /\ worker = WorkerIdle(0)
    /\ client = NoClient

\* A worker started with --poll-interval 0 when alice, enabled or disabled
\* by the admin, has a queued job and bob has submitted one after her.
InitStarve ==
    /\ now = 1
    /\ \E active \in BOOLEAN :
            consumers = [c \in Consumers |->
                            IF c = "alice" THEN [ConsumerRow(c) EXCEPT !.active = active]
                            ELSE ConsumerRow(c)]
    /\ jobs = <<Job(2, "alice", 0), Job(1, "bob", 1)>>
    /\ InitExecute!4 /\ InitExecute!5 /\ InitExecute!6
    /\ claimLog = <<>>
    /\ InitExecute!8 /\ InitExecute!9 /\ InitExecute!10
    /\ worker = WorkerIdle(0)
    /\ client = NoClient

\* The worker's loop with every request answered: the claims, the main
\* thread running each job in the local sandbox, the coordinator.  With
\* one worker no conditional update loses, so no claim has a second pass.
NextLoopOk ==
    \/ PostClaim
    \/ ClaimReturned
    \/ Wake
    \/ \E r \in Requests : ClaimQuota(r)
    \/ \E r \in Requests : ClaimUpdate(r)
    \/ LogClaimed
    \/ OnLogAppend("main")
    \/ OnLogLen("main")
    \/ FirstFlush
    \/ FlushTest("main")
    \/ FlushPost("main")
    \/ FlushReset("main")
    \/ Popen
    \/ \E code \in {0, 1} : ChildExits(code)
    \/ WaitReturns
    \/ WaitTimesOut
    \/ Kill
    \/ JoinAndReturn
    \/ PostFinish
    \/ \E r \in Requests : AppendLast(r)
    \/ \E r \in Requests : AppendInsert(r)
    \/ TickWait

\* The worker's loop with every request answered and children that exit
\* by themselves before their timeout, and the admin enabling and disabling
\* consumers.
NextStarve ==
    \/ PostClaim
    \/ ClaimReturned
    \/ Wake
    \/ \E r \in Requests : ClaimQuota(r)
    \/ \E r \in Requests : ClaimUpdate(r)
    \/ LogClaimed
    \/ OnLogAppend("main")
    \/ OnLogLen("main")
    \/ FirstFlush
    \/ FlushTest("main")
    \/ FlushPost("main")
    \/ FlushReset("main")
    \/ Popen
    \/ \E code \in {0, 1} : ChildExits(code)
    \/ WaitReturns
    \/ JoinAndReturn
    \/ PostFinish
    \/ \E r \in Requests : AppendLast(r)
    \/ \E r \in Requests : AppendInsert(r)
    \/ \E c \in Consumers, active \in BOOLEAN : set_active(c, active)

\* A worker started with --poll-interval 0 whose first job's command
\* leaves a process behind that writes one line to stdout, some time.
InitStale ==
    /\ InitExecute!1 /\ InitExecute!2
    /\ jobs = <<Job(2, "alice", 0), Job(1, "bob", 0)>>
    /\ InitExecute!4 /\ InitExecute!5 /\ InitExecute!6
    /\ claimLog = <<>>
    /\ InitExecute!8 /\ InitExecute!9 /\ InitExecute!10
    /\ worker = [WorkerIdle(0) EXCEPT !.pipe["stdout"] = <<OutLine>>]
    /\ client = NoClient

\* The worker's loop with all its threads, up to the start of the second
\* job's child: the first job's child exits with 0, the joins give the
\* pump threads 1 second each, and the threads go on after that.
NextStale ==
    \/ PostClaim
    \/ ClaimReturned
    \/ \E r \in Requests : ClaimQuota(r)
    \/ \E r \in Requests : ClaimUpdate(r)
    \/ LogClaimed
    \/ FirstFlush
    \/ Popen /\ worker.child = "none"
    \/ ChildExits(0)
    \/ WaitReturns
    \/ JoinAndReturn
    \/ PostFinish
    \/ \E t \in Pumps : PumpRead(t)
    \/ \E t \in Threads : OnLogAppend(t)
    \/ \E t \in Threads : OnLogLen(t)
    \/ \E t \in Threads : FlushTest(t)
    \/ \E t \in Threads : FlushPost(t)
    \/ \E t \in Threads : FlushReset(t)
    \/ \E r \in Requests : AppendLast(r)
    \/ \E r \in Requests : AppendInsert(r)

\* The worker's loop with claims that may fail.
NextLoop ==
    \/ NextLoopOk
    \/ ClaimFailed

\* The worker after the claim, running a child that writes one line.
InitFlushFails ==
    /\ InitExecute!1 /\ InitExecute!2 /\ InitExecute!3 /\ InitExecute!4
    /\ InitExecute!5 /\ InitExecute!6 /\ InitExecute!7 /\ InitExecute!8
    /\ InitExecute!9 /\ InitExecute!10
    /\ worker = WorkerClaimed(1, [t \in Pumps |-> IF t = "stdout" THEN <<OutLine>> ELSE <<>>])
    /\ client = NoClient

\* All the threads of the worker, with log POSTs that may fail.
NextFlushFails ==
    \/ NextExecute
    \/ NextPumps
    \/ \E t \in Threads : FlushFails(t)
    \/ FinallyFlush
    \/ Reraise

\* The worker claims the queued jobs, runs them and reports.
NextRun ==
    \/ \E h \in WorkerIdHeaders : StartClaim(h)
    \/ \E r \in Requests : ClaimRetry(r)
    \/ \E r \in Requests : ClaimQuota(r)
    \/ \E r \in Requests : ClaimUpdate(r)
    \/ \E j \in JobIds, e \in Executions : RunAndFinish(j, e)
    \/ Tick

Next ==
    \/ NextWorker
    \/ NextApi
    \/ NextRepeat
    \/ NextTruncate
    \/ NextReadLogs
    \/ NextList
    \/ NextAuth
    \/ NextRun
    \/ NextExecute
    \/ NextFlushFails
    \/ NextDocker
    \/ NextWs
    \/ NextThreads
    \/ NextPoll
    \/ NextLoop
    \/ NextClaims
    \/ NextStarve
    \/ NextStale
    \/ NextExhaust
    \/ NextWsAdmin
    \/ NextValidate
    \/ NextRead
    \/ NextWorkerAuth
    \/ NextLogs

\* Every request the API accepts, in any interleaving.
Spec == Init /\ [][Next]_vars

\* The pipeline driven by consumers and workers, with the clock running.
SpecWorker == Init /\ [][NextWorker]_vars

\* The pipeline plus late, repeated and arbitrary finish requests, at one
\* instant.
SpecRepeat == Init /\ [][NextRepeat]_vars

SpecTruncate == InitRunning /\ [][NextTruncate]_vars

SpecReadLogs == InitRunning /\ [][NextReadLogs]_vars

SpecList == Init /\ [][NextList]_vars

SpecAuth == Init /\ [][NextAuth]_vars

SpecWorkerAuth == InitQueued /\ [][NextWorkerAuth]_vars

SpecRead == InitRunning /\ [][NextRead]_vars

SpecValidate == InitConfigured /\ [][NextValidate]_vars

SpecRun == InitQueued /\ [][NextRun]_vars

SpecExecute == InitExecute /\ [][NextExecute]_vars

SpecLoop == InitLoop /\ [][NextLoop]_vars

SpecClaims == InitQueued /\ [][NextClaims]_vars

SpecStale == InitStale /\ [][NextStale]_vars

SpecWsAdmin == InitRunning /\ [][NextWsAdmin]_vars

SpecExhaust == InitOne /\ [][NextExhaust]_vars

\* A worker that keeps polling and runs what it claims to the end, with
\* the older job's owner enabled or disabled: every step of the worker,
\* its children and the coordinator that can be taken is taken.
SpecStarve ==
    /\ InitStarve
    /\ [][NextStarve]_vars
    /\ WF_vars(NextStarve /\ consumers' = consumers)

\* The loop of a worker whose requests are all answered, with a poll
\* interval of 0: the main thread takes every step it can take, the
\* coordinator answers the requests it holds, and the clock runs while the
\* worker waits for it.
SpecLoopFair ==
    /\ InitLoopOk
    /\ [][NextLoopOk]_vars
    /\ WF_vars(NextLoopOk /\ ~(\E code \in {0, 1} : ChildExits(code)))

\* Every thread of the worker that can take a step takes one, and the
\* coordinator answers the requests it holds.
SpecExecuteFair ==
    /\ SpecExecute
    /\ WF_vars(\/ LogClaimed \/ OnLogAppend("main") \/ OnLogLen("main") \/ FirstFlush
               \/ FlushTest("main") \/ FlushPost("main") \/ FlushReset("main")
               \/ Popen \/ WaitReturns \/ WaitTimesOut \/ Kill \/ JoinAndReturn
               \/ PostFinish
               \/ \E r \in Requests : AppendLast(r)
               \/ \E r \in Requests : AppendInsert(r))

SpecFlushFails == InitFlushFails /\ [][NextFlushFails]_vars

SpecDocker == InitDocker /\ [][NextDocker]_vars

SpecWs == InitRunning /\ [][NextWs]_vars

SpecThreads == InitThreads /\ [][NextThreads]_vars

SpecPoll == InitPoll /\ [][NextPoll]_vars

SpecApi == Init /\ [][NextApi]_vars

\* The pipeline plus concurrent log appends, at one instant.
SpecLogs == Init /\ [][NextLogs]_vars

\* ================================================================== claims
\* Copies of request r in a bag.
InBag(B, r) == IF r \in DOMAIN B THEN B[r] ELSE 0

\* Request r is new in the next state (it arrived, or moved to this position).
Arrives(r) == InBag(inflight', r) > InBag(inflight, r)

\* C1: under any interleaving of concurrent claim requests, a job is
\* returned by at most one claim response: no job id occurs twice among the
\* jobs the claim responses returned.
C1_ClaimedAtMostOnce ==
    \A a, b \in DOMAIN claimLog : a # b => claimLog[a] # claimLog[b]

\* C1 witness: a job has been returned to one request while another request,
\* which had selected the same job, lost the conditional update and is in
\* its second pass.
C1_Witness ==
    /\ Len(claimLog) >= 1
    /\ \E r \in Requests : r.op = "claim" /\ r.attempt = 2

\* C2: terminal states are absorbing: no step changes the status of a job
\* that is succeeded, failed or cancelled.
C2_TerminalAbsorbing ==
    [][\A j \in JobIds :
            jobs[j].status \in TerminalStatus => jobs'[j].status = jobs[j].status]_vars

\* The legal edges of the job state machine.
LegalEdges ==
    {<<"queued", "running">>, <<"queued", "cancelled">>,
     <<"running", "succeeded">>, <<"running", "failed">>,
     <<"running", "cancelled">>}

\* C3: every change of a job's status follows a legal edge, so a job
\* becomes succeeded or failed only from running.
C3_LegalTransitions ==
    [][\A j \in JobIds :
            jobs'[j].status # jobs[j].status
                => <<jobs[j].status, jobs'[j].status>> \in LegalEdges]_vars

\* The stored chunks of job j, as indexes of the log table.
ChunksOf(j) == {i \in DOMAIN logs : logs[i].job_id = j}

\* C4: for every job the seq values of its stored chunks are exactly
\* 0..N-1, with no gap and no duplicate.
C4_DenseSeq ==
    \A j \in JobIds :
        /\ {logs[i].seq : i \in ChunksOf(j)} = 0 .. (Cardinality(ChunksOf(j)) - 1)
        /\ \A a, b \in ChunksOf(j) : a # b => logs[a].seq # logs[b].seq

\* C5: for every consumer the number of its running jobs never exceeds its
\* max_concurrent_jobs.
C5_RunningWithinQuota ==
    \A c \in Consumers : count_running(c) <= consumers[c].max_concurrent_jobs

\* Job i comes before job k in created_at order, ties broken by id.
Before(i, k) ==
    \/ jobs[i].created_at < jobs[k].created_at
    \/ jobs[i].created_at = jobs[k].created_at /\ jobs[i].id < jobs[k].id

\* C6: FIFO claim: the job a claim's select takes is the first queued job
\* in created_at order, ties broken by id.
C6_ClaimTakesOldest ==
    [][\A r \in BagToSet(inflight') :
            (r.op = "claim" /\ r.pc = "quota" /\ Arrives(r))
                => \A k \in Queued \ {r.job} : Before(r.job, k)]_vars

\* C7: a submission by a consumer whose count of running jobs is at or over
\* max_concurrent_jobs is answered 429 and no job row is inserted.
C7_SubmitAtCapRejected ==
    [][\A c \in Consumers :
            (/\ StartSubmit(c)
             /\ consumers[c].active
             /\ count_running(c) >= consumers[c].max_concurrent_jobs)
                => /\ resp' = Response("submit", 429, c, "concurrent job limit reached")
                   /\ jobs' = jobs
                   /\ inflight' = inflight]_vars

\* C7 witness: a consumer with as many running jobs as it may have has just
\* been answered 429 for the concurrency limit.
C7_Witness ==
    \E c \in Consumers :
        /\ count_running(c) >= consumers[c].max_concurrent_jobs
        /\ resp = Response("submit", 429, c, "concurrent job limit reached")

\* C8: the worker's finish of a running job lowers its consumer's running
\* count by one; a submission by a consumer below its concurrency limit
\* passes the concurrency check, below its daily limit passes the daily
\* check, and is then answered 200 with a new row in status queued whose
\* started_at, finished_at, worker_id and exit_code are null.
C8_SubmitAfterFinish ==
    [][/\ \A j \in JobIds, p \in WorkerPayloads :
            Finish(j, p) =>
                count_running(jobs[j].consumer_id)'
                    = count_running(jobs[j].consumer_id) - 1
       /\ \A c \in Consumers :
            (/\ StartSubmit(c)
             /\ consumers[c].active
             /\ count_running(c) < consumers[c].max_concurrent_jobs)
                => /\ resp' = NoResp
                   /\ BagCardinality(inflight') = BagCardinality(inflight) + 1
       /\ \A r \in Requests :
            (/\ SubmitRecent(r)
             /\ count_created_since(r.consumer.id, now - Day)
                    < r.consumer.max_jobs_per_day)
                => resp' = NoResp /\ Arrives([r EXCEPT !.pc = "insert", !.created_at = now])
       /\ \A r \in Requests :
            SubmitInsert(r) =>
                /\ resp' = Response("submit", 200, r.consumer.id, None)
                /\ Len(jobs') = Len(jobs) + 1
                /\ LET new == jobs'[Len(jobs')]
                   IN  /\ new.status = "queued"
                       /\ new.consumer_id = r.consumer.id
                       /\ new.started_at = Null
                       /\ new.finished_at = Null
                       /\ new.worker_id = None
                       /\ new.exit_code = Null]_vars

\* C8 witness: a consumer that may run one job at a time had a job claimed
\* and finished by the worker, and a submission constructed after that
\* finish has just been answered 200 with its queued row.
C8_Witness ==
    \E i, k \in JobIds :
        /\ i < k /\ k = Len(jobs)
        /\ jobs[i].consumer_id = jobs[k].consumer_id
        /\ consumers[jobs[i].consumer_id].max_concurrent_jobs = 1
        /\ jobs[i].status \in {"succeeded", "failed"}
        /\ jobs[i].started_at # Null
        /\ jobs[k].created_at > jobs[i].finished_at
        /\ jobs[k].status = "queued"
        /\ resp = Response("submit", 200, jobs[k].consumer_id, None)

\* Jobs of consumer c created in the window of one day that ends at t.
CreatedInWindow(c, t) ==
    {i \in JobIds : jobs[i].consumer_id = c
                    /\ jobs[i].created_at >= t - Day /\ jobs[i].created_at <= t}

\* C9: for every consumer the number of its jobs created within any
\* trailing 24-hour window never exceeds max_jobs_per_day.
C9_DailyLimit ==
    \A c \in Consumers, t \in 0 .. MaxTime :
        Cardinality(CreatedInWindow(c, t)) <= consumers[c].max_jobs_per_day

\* No other submission of consumer c is being served.
NoSubmitInFlight(c) ==
    \A r \in Requests : ~(r.op = "submit" /\ r.consumer.id = c)

C11_NoChunksAfterTerminal ==
    [][\A j \in JobIds :
            jobs[j].status \in TerminalStatus
                => {i \in DOMAIN logs' : logs'[i].job_id = j} = ChunksOf(j)]_vars

\* C12: finish is idempotent: a finish request repeated with the status,
\* exit_code and error of the first leaves the whole job row unchanged,
\* finished_at included.
C12_FinishIdempotent ==
    [][\A j \in JobIds : FinishAgain(j) => jobs'[j] = jobs[j]]_vars

\* Positions of text at which the truncation marker occurs.
MarkerAt(text) ==
    {i \in 1 .. (Len(text) - Len(TruncationMarker) + 1) :
        SubSeq(text, i, i + Len(TruncationMarker) - 1) = TruncationMarker}

\* C13: a chunk text longer than MAX_LOG_CHARS is stored with length at
\* most MAX_LOG_CHARS + marker length and holds the truncation marker
\* exactly once, at its tail; a text of length <= MAX_LOG_CHARS is stored
\* unchanged.
C13_Truncation ==
    [][\A r \in Requests :
            AppendInsert(r) =>
                \A i \in 1 .. Len(r.chunks) :
                    LET text   == r.chunks[i].text
                        stored == logs'[Len(logs) + i].text
                    IN  IF Len(text) > MAX_LOG_CHARS
                        THEN /\ Len(stored) <= MAX_LOG_CHARS + Len(TruncationMarker)
                             /\ MarkerAt(stored)
                                    = {Len(stored) - Len(TruncationMarker) + 1}
                        ELSE stored = text]_vars

\* The stored chunks of job j with seq >= o, as indexes of the log table.
ChunksFrom(j, o) == {i \in ChunksOf(j) : logs[i].seq >= o}

\* C14: GET logs with offset_seq = o and limit = l returns stored chunks of
\* the job with seq >= o, each stored chunk at most once, in ascending seq
\* order, the first max(1, min(l, 2000)) of them (all when there are
\* fewer), and next_offset_seq is the last returned seq + 1, or o when no
\* chunk is returned.
C14_LogsPage ==
    [][\A c \in Consumers, j \in JobIds, o \in Offsets, l \in Limits :
            (get_job_logs(c, j, o, l) /\ jobs[j].consumer_id = c) =>
                LET cs == page'.chunks
                    n  == IF l > 2000 THEN 2000 ELSE IF l < 1 THEN 1 ELSE l
                IN  /\ resp'.code = 200
                    /\ Len(cs) = IF Cardinality(ChunksFrom(j, o)) < n
                                 THEN Cardinality(ChunksFrom(j, o)) ELSE n
                    /\ \E f \in [1 .. Len(cs) -> ChunksFrom(j, o)] :
                            /\ \A a, b \in 1 .. Len(cs) : a # b => f[a] # f[b]
                            /\ \A a \in 1 .. Len(cs) :
                                    /\ cs[a].seq = logs[f[a]].seq
                                    /\ cs[a].stream = logs[f[a]].stream
                                    /\ cs[a].text = logs[f[a]].text
                            /\ \A i \in ChunksFrom(j, o) :
                                    (\A a \in 1 .. Len(cs) : f[a] # i)
                                        => \A a \in 1 .. Len(cs) : cs[a].seq <= logs[i].seq
                    /\ \A a, b \in 1 .. Len(cs) : a < b => cs[a].seq <= cs[b].seq
                    /\ page'.next_offset_seq =
                            IF Len(cs) = 0 THEN o ELSE cs[Len(cs)].seq + 1]_vars

\* C14 witness: a job holds chunks with seq 0 and 1 and a read of it has
\* just returned the chunk with seq 0 alone, and next_offset_seq 1.
C14_Witness ==
    /\ resp.op = "logs" /\ resp.code = 200
    /\ page # NoPage
    /\ {logs[i].seq : i \in ChunksOf(page.job_id)} = {0, 1}
    /\ Len(page.chunks) = 1
    /\ page.chunks[1].seq = 0
    /\ page.next_offset_seq = 1

\* The jobs of consumer c, as rows of the job table.
JobsOf(c) == {i \in JobIds : jobs[i].consumer_id = c}

\* The orders in which the jobs of c are newest first: every job of c
\* exactly once, created_at never increasing.
NewestFirst(c) ==
    {R \in [1 .. Cardinality(JobsOf(c)) -> JobsOf(c)] :
        /\ \A a, b \in DOMAIN R : a # b => R[a] # R[b]
        /\ \A a, b \in DOMAIN R : a < b => jobs[R[a]].created_at >= jobs[R[b]].created_at}

\* C15: for a fixed job table, the pages of GET /v1/jobs are the windows
\* of one newest-first order of the caller's jobs: the page for (offset,
\* limit) holds positions max(0, offset) + 1 .. max(0, offset) + max(1,
\* min(limit, 200)) of it, so consecutive non-overlapping windows return
\* every job of the caller exactly once, newest first.
C15_ListWindows ==
    \A c \in Consumers :
        \E R \in NewestFirst(c) :
            \A o \in Offsets, l \in ListLimits :
                LET n  == IF l > 200 THEN 200 ELSE IF l < 1 THEN 1 ELSE l
                    k  == IF o < 0 THEN 0 ELSE o
                    hi == IF k + n < Len(R) THEN k + n ELSE Len(R)
                    body == list_response(c, o, l)
                IN  /\ body.limit = n
                    /\ body.offset = k
                    /\ Len(body.jobs) = IF hi > k THEN hi - k ELSE 0
                    /\ \A a \in 1 .. Len(body.jobs) :
                            body.jobs[a] = jobs[R[k + a]]

\* C15 witness: a consumer has two jobs created at different times, and a
\* listing with offset 1 has just returned the older one alone.
C15_Witness ==
    /\ resp.op = "list" /\ resp.code = 200
    /\ page # NoPage
    /\ page.offset = 1
    /\ Len(page.jobs) = 1
    /\ \E i \in JobsOf(resp.to) :
            /\ jobs[i].created_at > page.jobs[1].created_at
            /\ Cardinality(JobsOf(resp.to)) = 2

\* The consumers whose printed token is key.
Verified(key) == {c \in Consumers : key = <<key_id(c), api_key(c)>>}

\* The step is the arrival of a REST request with X-Consumer-Key key.
RestRequest(key) ==
    \/ RequestCreateJob(key)
    \/ \E o \in {0}, l \in {1} : RequestListJobs(key, o, l)
    \/ \E j \in FinishTargets, o \in {0}, l \in {1} : RequestJobLogs(key, j, o, l)

\* C16: a REST request with no key, an unknown key_id or a secret that does
\* not verify is answered 401; one whose key verifies for an inactive
\* consumer is answered 403; in each case no job row is created or changed
\* (and no request is taken into service).
C16_ConsumerAuth ==
    [][\A key \in ConsumerKeys :
            RestRequest(key) =>
                /\ Verified(key) = {}
                        => /\ resp'.code = 401
                           /\ jobs' = jobs /\ logs' = logs /\ inflight' = inflight
                /\ \A c \in Verified(key) :
                        ~consumers[c].active
                            => /\ resp'.code = 403
                               /\ jobs' = jobs /\ logs' = logs
                               /\ inflight' = inflight]_vars

\* C16 witness: a consumer that owns a job has been disabled, and its
\* request with its own key has just been answered 403.
C16_Witness ==
    \E c \in Consumers :
        /\ ~consumers[c].active
        /\ JobsOf(c) # {}
        /\ resp = Response("submit", 403, c, "consumer disabled")

\* The step is the arrival of a request of a worker endpoint with
\* X-Worker-Token t.
WorkerRequest(t) ==
    \/ \E h \in WorkerIdHeaders : RequestClaim(t, h)
    \/ \E j \in FinishTargets, p \in WorkerPayloads : RequestFinish(t, j, p)
    \/ \E j \in FinishTargets, p \in LogPayloads : RequestAppend(t, j, p)

\* C17: claim, append-logs and finish answer 503 when the server has no
\* worker token configured, and 401 when the X-Worker-Token presented is
\* missing or differs from the configured one; in both cases no job row and
\* no log row changes (and no request is taken into service).
C17_WorkerAuth ==
    [][\A t \in WorkerTokens :
            WorkerRequest(t) =>
                /\ config.WORKER_SHARED_TOKEN = ""
                        => /\ resp'.code = 503
                           /\ jobs' = jobs /\ logs' = logs /\ inflight' = inflight
                /\ (config.WORKER_SHARED_TOKEN # ""
                        /\ (t = "" \/ t # config.WORKER_SHARED_TOKEN))
                        => /\ resp'.code = 401
                           /\ jobs' = jobs /\ logs' = logs
                           /\ inflight' = inflight]_vars

\* C17 witness: a job is running and a finish request has just been
\* answered 401.
C17_Witness ==
    /\ \E j \in JobIds : jobs[j].status = "running"
    /\ resp = Response("finish", 401, "worker", "invalid worker token")

\* C18: GET job and GET logs answer 404 for a job of another consumer with
\* the response they give for a job that does not exist, answer 200 for
\* the caller's own job, and GET /v1/jobs returns only jobs whose
\* consumer_id is the caller's.
C18_JobIsolation ==
    [][/\ resp'.op = "get" =>
            \A c \in Consumers, j \in FinishTargets :
                get_job(c, j) =>
                    IF j \in JobsOf(c)
                    THEN resp'.code = 200 /\ page' = jobs[j]
                    ELSE /\ resp' = Response("get", 404, c, "job not found")
                         /\ page' = NoPage
       /\ resp'.op = "logs" =>
            \A c \in Consumers, j \in FinishTargets, o \in Offsets, l \in Limits :
                get_job_logs(c, j, o, l) =>
                    IF j \in JobsOf(c)
                    THEN resp'.code = 200 /\ page'.job_id = j
                    ELSE /\ resp' = Response("logs", 404, c, "job not found")
                         /\ page' = NoPage
       /\ resp'.op = "list" =>
            \A c \in Consumers, o \in Offsets, l \in ListLimits :
                list_jobs(c, o, l) =>
                    \A a \in 1 .. Len(page'.jobs) : page'.jobs[a].consumer_id = c]_vars

\* C18 witness: the table holds a job of another consumer with a stored
\* log chunk, and a listing with room for two jobs has just returned the
\* caller's one job alone.
C18_Witness ==
    /\ resp.op = "list" /\ resp.code = 200
    /\ page # NoPage
    /\ page.offset = 0 /\ page.limit = 2
    /\ Len(page.jobs) = 1
    /\ page.jobs[1].consumer_id = resp.to
    /\ \E j \in JobIds : jobs[j].consumer_id # resp.to /\ ChunksOf(j) # {}

\* C19: a submission with an empty command, a command longer than 20000
\* characters, a timeout_seconds outside 1..86400 or a sandbox outside the
\* enum is answered 400 and creates no job; so is one with sandbox = local
\* when local sandboxes are disabled by configuration.
C19_ValidationRejected ==
    [][\A c \in Consumers, payload \in JobCreates :
            (/\ create_job(c, payload)
             /\ \/ payload.command_length = 0
                \/ payload.command_length > 20000
                \/ payload.timeout_seconds < 1
                \/ payload.timeout_seconds > 86400
                \/ payload.sandbox \notin {"local", "docker"}
                \/ payload.sandbox = "local" /\ ~config.ALLOW_LOCAL_SANDBOX)
                => /\ resp'.code = 400
                   /\ jobs' = jobs
                   /\ inflight' = inflight]_vars

\* C20: the worker reports succeeded exactly when the executor raised no
\* exception and returned exit code 0, and failed in every other case; the
\* status the finish writes is never another one.
C20_WorkerStatus ==
    [][\A j \in JobIds, e \in Executions :
            RunAndFinish(j, e) =>
                /\ jobs'[j].status \in {"succeeded", "failed"}
                /\ jobs'[j].status = "succeeded" <=> (~e.raised /\ e.rc = 0)]_vars

\* C20 witness: a job whose command timed out (exit code 124, no
\* exception) has just been reported failed.
C20_Witness ==
    /\ resp = Response("finish", 200, "worker", None)
    /\ \E j \in JobIds :
            /\ jobs[j].status = "failed"
            /\ jobs[j].exit_code = 124
            /\ jobs[j].error = None

\* How many times record x was passed to on_log.
Emitted(x) == Cardinality({i \in DOMAIN worker.emitted : worker.emitted[i] = x})

\* C21: a child still running when the wait of timeout_seconds gives up is
\* killed after exactly one system record "timeout after Ns" was emitted,
\* run_local returns 124, and the job is finished failed with exit_code 124;
\* and once the timeout has passed with the child running, the worker does
\* get to the end of the job.
C21_Timeout ==
    /\ [](worker.child = "killed" =>
            /\ now - worker.started >= worker.timeout_seconds
            /\ Emitted(TimeoutRecord) = 1
            /\ worker.rc = 124
            /\ At("main", "claim") =>
                    /\ jobs[worker.job].status = "failed"
                    /\ jobs[worker.job].exit_code = 124
                    /\ jobs[worker.job].error = None)
    /\ (At("main", "wait") /\ wait_expired(worker))
            ~> (At("main", "claim") /\ worker.child # "running")

\* C21 witness: the child was killed after the timeout and the job is
\* finished failed with exit code 124, the timeout record stored.
C21_Witness ==
    /\ worker # NoWorker
    /\ worker.child = "killed"
    /\ At("main", "claim")
    /\ jobs[worker.job].status = "failed"
    /\ jobs[worker.job].exit_code = 124
    /\ \E i \in DOMAIN logs : logs[i].job_id = worker.job /\ logs[i].text = TimeoutRecord.text

\* C22: a failed log flush ends the processing of the job only: the worker
\* process is still running after it (and so goes on to claim).
C22_WorkerSurvivesFlushFailure ==
    [][\A t \in Threads : FlushFails(t) => worker'.alive]_vars

\* C23: whichever way run_docker was left (exit code, timeout, or an
\* exception from launching the container or from writing the script), a
\* per-job network that was created has had its removal attempted by the
\* time the worker reports the job.
C23_NetworkRemoved ==
    worker # NoWorker /\ (At("main", "finish") \/ At("main", "claim"))
        => worker.net # "created"

\* C24: a finished job has an exit_code exactly when the executor returned
\* one; when the executor raised, the job is finished failed with exit_code
\* null and error set to the exception text.
C24_ExitCodeIffProduced ==
    [][\A j \in JobIds, e \in Executions :
            RunAndFinish(j, e) =>
                /\ jobs'[j].exit_code # Null <=> ~e.raised
                /\ e.raised => /\ jobs'[j].status = "failed"
                               /\ jobs'[j].error = worker_error(e)]_vars

\* C25: in every state a job's finished_at is set exactly when its status
\* is succeeded, failed or cancelled, whatever the finish requests carried.
C25_FinishedAtIffTerminal ==
    \A j \in JobIds :
        jobs[j].finished_at # Null <=> jobs[j].status \in TerminalStatus

\* Job j was returned by a claim.
EverClaimed(j) == \E i \in DOMAIN claimLog : claimLog[i] = jobs[j].id

\* C26: in every state a job's started_at is set exactly when the job has
\* reached running, and every job that is running, succeeded or failed has
\* a worker_id.
C26_StartedAtAndWorkerId ==
    \A j \in JobIds :
        /\ jobs[j].started_at # Null <=> (EverClaimed(j) \/ jobs[j].status = "running")
        /\ jobs[j].status \in {"running", "succeeded", "failed"}
                => jobs[j].worker_id # None

\* C27: the WebSocket endpoint closes with 4401 when the key is missing,
\* names an unknown key_id or fails verification, and with 4404 when the
\* job is missing or belongs to another consumer; in both cases no frame is
\* sent and the handler's loop is never entered.  Otherwise it does not
\* close.
C27_WsClose ==
    [][\A key \in ConsumerKeys, j \in FinishTargets :
            ws_job_logs(key, j) =>
                IF Verified(key) = {}
                THEN /\ resp'.op = "ws" /\ resp'.code = 4401
                     /\ page' = page /\ inflight' = inflight
                ELSE IF j \notin JobIds \/ jobs[j].consumer_id \notin Verified(key)
                THEN /\ resp'.op = "ws" /\ resp'.code = 4404
                     /\ page' = page /\ inflight' = inflight
                ELSE /\ resp'.op # "ws"
                     /\ \E r \in BagToSet(inflight') :
                            r.op = "ws" /\ r.job = j /\ r.consumer \in Verified(key)]_vars

\* C27 witness: a caller with a valid key was just refused, with 4404, the
\* socket of another consumer's job that has chunks stored, and no frame
\* was sent.
C27_Witness ==
    /\ resp.op = "ws" /\ resp.code = 4404
    /\ resp.to \in Consumers
    /\ resp.detail \in JobIds
    /\ jobs[resp.detail].consumer_id # resp.to
    /\ \E i \in DOMAIN logs : logs[i].job_id = resp.detail
    /\ page = NoPage

\* How many times record x was sent in an append-logs request.
Sent(x) == Cardinality({i \in DOMAIN worker.sent : worker.sent[i] = x})

\* No thread of the worker has anything left to do for the job.
JobDone ==
    /\ At("main", "claim")
    /\ \A t \in Pumps : worker.pc[t] = "ended"

\* C28: with every POST succeeding, a record passed to on_log is never sent
\* in two batches, and once all threads are done with the job every record
\* passed to on_log has been sent, whatever the interleaving of the pumps
\* and the main thread.
C28_EachRecordSentOnce ==
    worker # NoWorker =>
        \A i \in DOMAIN worker.emitted :
            /\ Sent(worker.emitted[i]) <= Emitted(worker.emitted[i])
            /\ JobDone => Sent(worker.emitted[i]) = Emitted(worker.emitted[i])

\* The place of a line in what the child wrote to its pipe: out and err are
\* first lines, out2 is a second line.
LineNo(text) == IF text = Out2Line THEN 2 ELSE 1

\* C29: for the job and each of stdout and stderr, of two stored chunks of
\* the stream the one with the smaller seq never carries the later line; no
\* order is required between a stdout chunk and a stderr chunk.
C29_StreamOrder ==
    worker # NoWorker =>
        \A a \in DOMAIN logs, b \in DOMAIN logs :
            /\ logs[a].job_id = worker.job /\ logs[b].job_id = worker.job
            /\ logs[a].stream \in Pumps /\ logs[a].stream = logs[b].stream
            /\ logs[a].seq < logs[b].seq
            => LineNo(logs[a].text) <= LineNo(logs[b].text)

\* How many of the job's stored chunks carry seq q.
StoredAt(q) == Cardinality({i \in ChunksOf(client.job) : logs[i].seq = q})

\* How many of the chunks the client received carry seq q.
ReceivedAt(q) == Cardinality({i \in DOMAIN client.received : client.received[i].seq = q})

\* C30: a client that polls with each response's next_offset_seq has
\* received, in ascending seq order, exactly once every stored chunk below
\* its offset, so that no chunk stored for the job is ever skipped or
\* repeated, also while chunks are being appended.
C30_PollReceivesAll ==
    client # NoClient =>
        /\ \A q \in 0 .. (client.offset - 1) : ReceivedAt(q) = StoredAt(q)
        /\ \A i \in DOMAIN client.received, k \in DOMAIN client.received :
                i < k => client.received[i].seq <= client.received[k].seq

\* The seq of the row pushed a-th on socket r.
PushedSeq(r, a) == logs[r.pushed[a]].seq

\* C31: on a socket whose client sent no offset message the chunks are
\* pushed in ascending seq order, none twice, and all below the socket's
\* offset; a frame is the job's chunks from the offset on, its
\* next_offset_seq and the socket's new offset are its last seq + 1; and a
\* message offset=N makes the next frame start at the first chunk with seq
\* >= max(0, N).
C31_WsFrames ==
    /\ [](\A r \in Sockets :
            ~r.sought =>
                /\ \A a \in DOMAIN r.pushed, b \in DOMAIN r.pushed :
                        a < b => /\ r.pushed[a] # r.pushed[b]
                                 /\ PushedSeq(r, a) <= PushedSeq(r, b)
                /\ \A a \in DOMAIN r.pushed : PushedSeq(r, a) < r.offset)
    /\ [][\A r \in Sockets, n \in {Null, 0 - 2, 0, 1} :
            ws_loop(r, n) /\ resp'.op = "ws_frame" =>
                LET start == IF n = Null THEN r.offset
                             ELSE IF n < 0 THEN 0 ELSE n
                    From == {i \in ChunksOf(r.job) : logs[i].seq >= start}
                    cs == page'.chunks
                    last == cs[Len(cs)].seq
                IN  /\ Len(cs) = Cardinality(From)
                    /\ \A i \in From : \E a \in DOMAIN cs : cs[a].seq = logs[i].seq
                    /\ \A a \in DOMAIN cs : \A i \in From : a = 1 => cs[a].seq <= logs[i].seq
                    /\ \A a \in DOMAIN cs, b \in DOMAIN cs : a < b => cs[a].seq <= cs[b].seq
                    /\ page'.next_offset_seq = last + 1
                    /\ \E q \in BagToSet(inflight') :
                            /\ q.op = "ws" /\ q.job = r.job /\ q.offset = last + 1
                            /\ Len(q.pushed) = Len(r.pushed) + Len(cs)]_vars

\* C31 witness: a socket whose client sent no message has been pushed two
\* frames, the second with a chunk stored after the first was sent.
C31_Witness ==
    \E r \in Sockets :
        /\ ~r.sought
        /\ Len(r.pushed) = 2
        /\ r.offset = 2
        /\ resp.op = "ws_frame"
        /\ Len(page.chunks) = 1

Got == {worker.got[k] : k \in DOMAIN worker.got}

\* C33: the worker posts a claim only when every job its claims returned
\* so far has been posted finished, so at most one of the jobs returned to
\* it is running at any time.
C33_OneJobAtATime ==
    /\ [](InLoop => Cardinality({j \in Got : jobs[j].status = "running"}) <= 1)
    /\ [][PostClaim =>
            \A j \in Got : /\ jobs[j].status \in {"succeeded", "failed"}
                            /\ jobs[j].finished_at # Null]_vars

\* C33 witness: the worker runs the second job a claim returned to it, the
\* first one finished.
C33_Witness ==
    /\ InLoop
    /\ Len(worker.got) = 2
    /\ At("main", "wait")
    /\ jobs[worker.got[2]].status = "running"
    /\ jobs[worker.got[1]].status \in {"succeeded", "failed"}

\* C34: when the quota check of a claim request finds the owner of the
\* selected job disabled, the request ends there: it answers {job: null},
\* writes no row and never reaches its UPDATE.
C34_DisabledOwnerNotClaimed ==
    [][\A r \in PostedClaims :
            (/\ r.pc = "quota"
             /\ ~consumers[jobs[r.job].consumer_id].active
             /\ ClaimQuota(r))
                => /\ resp' = Response("claim", 200, "worker", "null")
                   /\ inflight' = Drop(r)
                   /\ jobs' = jobs
                   /\ claimLog' = claimLog]_vars

\* C34 witness: a claim was answered {job: null} while the oldest queued
\* job belongs to a disabled consumer and the other consumer is enabled.
C34_Witness ==
    /\ resp = Response("claim", 200, "worker", "null")
    /\ PostedClaims = {}
    /\ \E j \in oldest_queued : ~consumers[jobs[j].consumer_id].active
    /\ \E c \in Consumers : consumers[c].active

\* C35: a failed claim request puts the worker, still alive, into a sleep
\* of at least 1 second and of at least poll_interval; a claim answered
\* {job: null} puts it into a sleep of poll_interval; the sleep ends no
\* earlier than its length after it began and is followed by the next
\* claim, with no job taken and no child started in between.
C35_ClaimBackoff ==
    [][/\ ClaimFailed =>
            /\ worker'.alive /\ worker'.pc["main"] = "sleep"
            /\ worker'.sleep >= 1 /\ worker'.sleep >= worker.poll_interval
       /\ (ClaimReturned /\ Len(claimLog) = worker.arg["main"]) =>
            /\ worker'.alive /\ worker'.pc["main"] = "sleep"
            /\ worker'.sleep = worker.poll_interval
       /\ (InLoop /\ At("main", "sleep")) =>
            /\ worker'.alive
            /\ worker'.pc["main"] \in {"sleep", "claim"}
            /\ worker'.pc["main"] = "claim" => now - worker.since >= worker.sleep
            /\ worker'.got = worker.got /\ worker'.child = worker.child
            /\ jobs' = jobs /\ logs' = logs]_vars

\* C35 witness: the worker claims again after the back-off of a failed
\* claim: with a poll interval of 0 and no job run, only that sleep lets
\* the clock advance.
C35_Witness ==
    /\ InLoop
    /\ worker.poll_interval = 0
    /\ worker.got = <<>>
    /\ now >= 1
    /\ At("main", "claiming")

\* C36: with a worker that keeps polling, no job stays queued for ever
\* with an owner that is enabled and below its concurrency limit all the
\* while, whatever the state of the owners of older queued jobs.
C36_EligibleJobClaimed ==
    \A j \in {1, 2} :
        []<>(~(jobs[j].status = "queued" /\ ~claim_quota_error(jobs[j].consumer_id)))

\* C37: what the first job's child wrote is neither in the buffer of the
\* second job nor stored under the second job's id.
C37_OwnRecordsOnly ==
    (InLoop /\ Len(worker.got) = 2) =>
        /\ \A k \in DOMAIN worker.seq_buf : worker.seq_buf[k].text # OutLine
        /\ \A i \in DOMAIN logs :
                logs[i].job_id = worker.got[2] => logs[i].text # OutLine

C39_ChunksOnlyForClaimed ==
    \A i \in DOMAIN logs :
        /\ logs[i].job_id \in JobIds
        /\ jobs[logs[i].job_id].started_at # Null
        /\ jobs[logs[i].job_id].worker_id # None

\* C40: a log WebSocket opened with the key of a consumer whose active
\* flag is false is closed before the loop: the handler sends it no frame.
C40_WsRefusesDisabled ==
    [][\A key \in ConsumerKeys, j \in FinishTargets :
            (/\ ws_consumer(key) # None
             /\ ~consumers[ws_consumer(key)].active
             /\ ws_job_logs(key, j))
                => /\ resp'.op = "ws" /\ resp'.code # 0
                   /\ inflight' = inflight]_vars

TypeOK ==
    /\ now \in 0 .. MaxTime
    /\ Len(jobs) <= MaxJobs
    /\ \A i \in JobIds : jobs[i].status \in JobStatus
    /\ BagCardinality(inflight) <= MaxInflight
====
